---- MODULE Spec2Model ----
(***************************************************************************)
(* Invoice / goods-receipt reconciliation engine.                          *)
(*                                                                         *)
(* Strings are tuples of one-character strings, so that strip(), upper()   *)
(* and the substring test are computed and not assumed.  A nullable value  *)
(* (None in the program) is the empty tuple << >>, a present value v is    *)
(* <<v>>.  Money, quantities and prices are natural numbers of the         *)
(* smallest unit; a tolerance percentage is a natural number of hundredths *)
(* of a percent (2.00 % is 200); a percentage computed by the program is   *)
(* the exact fraction [num, den].                                          *)
(***************************************************************************)
EXTENDS Integers, Sequences, FiniteSets, TLC

VARIABLES batches, hdrRecs, runs, failures, probe, itemRecs, grnStatus, matched, post,
          manual

vars ==
    <<batches, hdrRecs, runs, failures, probe, itemRecs, grnStatus, matched, post, manual>>

\* the tables and requests a pure component leaves alone
dbVars == <<batches, hdrRecs, runs, failures, itemRecs, grnStatus, matched, post, manual>>

\* the state of the unified request, which a bare header run leaves alone
postVars == <<itemRecs, grnStatus, matched, post, manual>>

----------------------------------------------------------------------------
(* Python values *)

None == << >>

Some(v) == <<v>>

\* safe_decimal: None becomes 0
safe_decimal(value) == IF value = None THEN 0 ELSE value[1]

\* truth value of an optional number: None and 0 are false
TruthyNum(value) == value # None /\ value[1] # 0

\* truth value of a string: None and '' are both the empty tuple
TruthyStr(s) == s # << >>

Abs(x) == IF x < 0 THEN -x ELSE x

\* the letters whose case the model distinguishes
LowerLetters == <<"a", "b", "c", "g", "h", "i", "k", "p", "y", "z">>

UpperLetters == <<"A", "B", "C", "G", "H", "I", "K", "P", "Y", "Z">>

\* str.upper() on one character
UpperChar(c) ==
    IF \E i \in 1..Len(LowerLetters) : LowerLetters[i] = c
    THEN UpperLetters[CHOOSE i \in 1..Len(LowerLetters) : LowerLetters[i] = c]
    ELSE c

\* str.lower() on one character
LowerChar(c) ==
    IF \E i \in 1..Len(UpperLetters) : UpperLetters[i] = c
    THEN LowerLetters[CHOOSE i \in 1..Len(UpperLetters) : UpperLetters[i] = c]
    ELSE c

Upper(s) == [i \in 1..Len(s) |-> UpperChar(s[i])]

Lower(s) == [i \in 1..Len(s) |-> LowerChar(s[i])]

RECURSIVE LStrip(_)
LStrip(s) == IF s # << >> /\ Head(s) = " " THEN LStrip(Tail(s)) ELSE s

RECURSIVE RStrip(_)
RStrip(s) ==
    IF s # << >> /\ s[Len(s)] = " " THEN RStrip(SubSeq(s, 1, Len(s) - 1)) ELSE s

\* str.strip()
Strip(s) == RStrip(LStrip(s))

\* a.strip().upper()
StripUpper(s) == Upper(Strip(s))

\* Python's  a in b  on strings
IsSubstring(a, b) ==
    \E i \in 0..(Len(b) - Len(a)) : SubSeq(b, i + 1, i + Len(a)) = a

----------------------------------------------------------------------------
(* Variance calculators *)

\* a Decimal quotient kept exact: abs(variance / grn * 100) is Frac(|variance * 100|, |grn|)
Frac(n, d) == [num |-> n, den |-> d]

\* variance_pct <= self.tolerance_percentage * factor, the tolerance in
\* hundredths of a percent and the percentage an exact fraction
\* a comparison that leaves the boundary out
PctLess(pct, tolerance, factor) == pct.num * 100 < tolerance * factor * pct.den

PctLeq(pct, tolerance, factor) == pct.num * 100 <= tolerance * factor * pct.den

\* calculate_variance, nested in _evaluate_amount_tolerance
calculate_variance(invoice_val, grn_val, tolerance) ==
    LET invoice_amount == safe_decimal(invoice_val)
        grn_amount == safe_decimal(grn_val)
        variance == invoice_amount - grn_amount
        variance_pct ==
            IF grn_amount # 0 THEN Frac(Abs(variance * 100), Abs(grn_amount))
            ELSE IF variance = 0 THEN Frac(0, 1) ELSE Frac(100, 1)
    IN  [variance_amount |-> variance,
         variance_pct |-> variance_pct,
         within_tolerance |-> PctLeq(variance_pct, tolerance, 1)]

\* _evaluate_amount_tolerance: the five header variances, and the points
\* given for the total amount
_evaluate_amount_tolerance(invoice, grn, tolerance) ==
    LET subtotal_var ==
            calculate_variance(invoice.invoice_value_without_gst, grn.total_subtotal, tolerance)
        cgst_var == calculate_variance(invoice.cgst_amount, grn.total_cgst_amount, tolerance)
        sgst_var == calculate_variance(invoice.sgst_amount, grn.total_sgst_amount, tolerance)
        igst_var == calculate_variance(invoice.igst_amount, grn.total_igst_amount, tolerance)
        total_var ==
            calculate_variance(invoice.invoice_total_post_gst, grn.total_amount, tolerance)
        within_tolerance == total_var.within_tolerance
        score ==
            IF within_tolerance THEN 15
            ELSE IF PctLeq(total_var.variance_pct, tolerance, 2) THEN 10
            ELSE IF PctLeq(total_var.variance_pct, tolerance, 5) THEN 5
            ELSE 0
    IN  [score |-> score,
         within_tolerance |-> within_tolerance,
         variances |->
             [subtotal_variance |-> subtotal_var,
              cgst_variance |-> cgst_var,
              sgst_variance |-> sgst_var,
              igst_variance |-> igst_var,
              total_variance |-> total_var]]

\* _evaluate_quantity_match
_evaluate_quantity_match(invoice_item, grn_item, tolerance) ==
    LET invoice_v == safe_decimal(invoice_item.quantity)
        grn_v == safe_decimal(grn_item.received_qty)
        variance == invoice_v - grn_v
        variance_pct ==
            IF grn_v # 0 THEN Frac(Abs(variance * 100), Abs(grn_v))
            ELSE IF variance = 0 THEN Frac(0, 1) ELSE Frac(100, 1)
        within_tolerance == PctLeq(variance_pct, tolerance, 1)
        score ==
            IF within_tolerance THEN 15
            ELSE IF PctLeq(variance_pct, tolerance, 2) THEN 10
            ELSE IF PctLeq(variance_pct, tolerance, 5) THEN 5
            ELSE 0
    IN  [score |-> score,
         within_tolerance |-> within_tolerance,
         variance |-> variance,
         variance_pct |-> variance_pct]

\* _evaluate_price_match
_evaluate_price_match(invoice_item, grn_item, tolerance) ==
    LET invoice_v == safe_decimal(invoice_item.unit_price)
        grn_v == safe_decimal(grn_item.price)
        variance == invoice_v - grn_v
        variance_pct ==
            IF grn_v # 0 THEN Frac(Abs(variance * 100), Abs(grn_v))
            ELSE IF variance = 0 THEN Frac(0, 1) ELSE Frac(100, 1)
        within_tolerance == PctLeq(variance_pct, tolerance, 1)
        score ==
            IF within_tolerance THEN 15
            ELSE IF PctLeq(variance_pct, tolerance, 2) THEN 10
            ELSE IF PctLeq(variance_pct, tolerance, 5) THEN 5
            ELSE 0
    IN  [score |-> score,
         within_tolerance |-> within_tolerance,
         variance |-> variance,
         variance_pct |-> variance_pct]

\* _evaluate_amount_match: the line total, reported as the subtotal criterion
_evaluate_amount_match(invoice_item, grn_item, tolerance) ==
    LET invoice_v == safe_decimal(invoice_item.item_total_amount)
        grn_v == safe_decimal(grn_item.total)
        variance == invoice_v - grn_v
        variance_pct ==
            IF grn_v # 0 THEN Frac(Abs(variance * 100), Abs(grn_v))
            ELSE IF variance = 0 THEN Frac(0, 1) ELSE Frac(100, 1)
        within_tolerance == PctLeq(variance_pct, tolerance, 1)
        score ==
            IF within_tolerance THEN 15
            ELSE IF PctLeq(variance_pct, tolerance, 2) THEN 10
            ELSE IF PctLeq(variance_pct, tolerance, 5) THEN 5
            ELSE 0
    IN  [score |-> score,
         within_tolerance |-> within_tolerance,
         variance |-> variance,
         variance_pct |-> variance_pct]

----------------------------------------------------------------------------
(* Header level: Match Evaluator *)

\* _evaluate_vendor_match
_evaluate_vendor_match(invoice, grn) ==
    LET invoice_vendor == StripUpper(invoice.vendor_name)
        grn_vendor == StripUpper(grn.supplier_name)
    IN  \/ /\ TruthyStr(invoice.vendor_name) /\ TruthyStr(grn.supplier_name)
           /\ \/ invoice_vendor = grn_vendor
              \/ IsSubstring(invoice_vendor, grn_vendor)
              \/ IsSubstring(grn_vendor, invoice_vendor)
        \/ /\ TruthyStr(invoice.vendor_gst) /\ TruthyStr(grn.pickup_gstin)
           /\ StripUpper(invoice.vendor_gst) = StripUpper(grn.pickup_gstin)

\* _evaluate_date_validation: dates are day numbers
_evaluate_date_validation(invoice, grn, date_tolerance_days) ==
    IF invoice.invoice_date = None \/ grn.grn_created_date = None
    THEN TRUE
    ELSE LET date_diff == grn.grn_created_date[1] - invoice.invoice_date[1]
         IN  -date_tolerance_days <= date_diff /\ date_diff <= date_tolerance_days

\* a mapping that looks at the vendor before the amount
HeaderStatusVendorFirst(score, within_tolerance, vendor_match, date_valid) ==
    IF score >= 85 THEN "perfect_match"
    ELSE IF score >= 60 THEN "partial_match"
    ELSE IF ~vendor_match THEN "vendor_mismatch"
    ELSE IF ~within_tolerance THEN "amount_mismatch"
    ELSE IF ~date_valid THEN "date_mismatch"
    ELSE "partial_match"

\* the status mapping at the end of _evaluate_single_match
HeaderStatus(score, within_tolerance, vendor_match, date_valid) ==
    IF score >= 85 THEN "perfect_match"
    ELSE IF score >= 60 THEN "partial_match"
    ELSE IF ~within_tolerance THEN "amount_mismatch"
    ELSE IF ~vendor_match THEN "vendor_mismatch"
    ELSE IF ~date_valid THEN "date_mismatch"
    ELSE "partial_match"

\* _evaluate_single_match
_evaluate_single_match(invoice, grn, tolerance, date_tolerance_days) ==
    LET po_match ==
            /\ TruthyStr(invoice.po_number) /\ TruthyStr(grn.po_number)
            /\ StripUpper(invoice.po_number) = StripUpper(grn.po_number)
        invoice_match ==
            /\ TruthyStr(invoice.invoice_number) /\ TruthyStr(grn.seller_invoice_number)
            /\ StripUpper(invoice.invoice_number) = StripUpper(grn.seller_invoice_number)
        grn_match ==
            /\ TruthyStr(invoice.grn_number) /\ TruthyStr(grn.grn_number)
            /\ StripUpper(invoice.grn_number) = StripUpper(grn.grn_number)
        vendor_match == _evaluate_vendor_match(invoice, grn)
        date_valid == _evaluate_date_validation(invoice, grn, date_tolerance_days)
        amount_evaluation == _evaluate_amount_tolerance(invoice, grn, tolerance)
        score ==
            (IF po_match THEN 25 ELSE 0) + (IF invoice_match THEN 20 ELSE 0)
            + (IF grn_match THEN 15 ELSE 0) + (IF vendor_match THEN 15 ELSE 0)
            + (IF date_valid THEN 10 ELSE 0) + amount_evaluation.score
    IN  [grn_summary |-> grn,
         match_score |-> score,
         match_details |->
             [po_match |-> po_match,
              invoice_match |-> invoice_match,
              grn_match |-> grn_match,
              vendor_match |-> vendor_match,
              date_valid |-> date_valid,
              amount_tolerance |-> amount_evaluation.within_tolerance],
         variances |-> amount_evaluation.variances,
         match_status |->
             HeaderStatus(score, amount_evaluation.within_tolerance, vendor_match, date_valid)]

\* a selection that replaces the best match on an equal score as well
RECURSIVE BestOfLast(_, _, _)
BestOfLast(evaluations, best_match, best_score) ==
    IF evaluations = << >> THEN best_match
    ELSE IF Head(evaluations).match_score >= best_score
         THEN BestOfLast(Tail(evaluations), Head(evaluations), Head(evaluations).match_score)
         ELSE BestOfLast(Tail(evaluations), best_match, best_score)

\* _evaluate_grn_matches: the first candidate with the highest score
\* (best_score starts at -1 and is replaced on a strictly higher score)
RECURSIVE BestOf(_, _, _)
BestOf(evaluations, best_match, best_score) ==
    IF evaluations = << >> THEN best_match
    ELSE IF Head(evaluations).match_score > best_score
         THEN BestOf(Tail(evaluations), Head(evaluations), Head(evaluations).match_score)
         ELSE BestOf(Tail(evaluations), best_match, best_score)

_evaluate_grn_matches(invoice, grn_matches, tolerance, date_tolerance_days) ==
    BestOf([i \in 1..Len(grn_matches) |->
                _evaluate_single_match(invoice, grn_matches[i], tolerance, date_tolerance_days)],
           None, -1)

----------------------------------------------------------------------------
(* Header level: Candidate Finder *)

\* the six lookups of _find_grn_matches_hierarchical, by number: the guard
\* on the invoice's fields, and the query (GrnSummary.objects.filter keeps the
\* rows in table order)
HeaderStrategyGuard(n, invoice) ==
    CASE n = 1 -> TruthyStr(invoice.po_number) /\ TruthyStr(invoice.grn_number)
                  /\ TruthyStr(invoice.invoice_number)
      [] n = 2 -> TruthyStr(invoice.po_number) /\ TruthyStr(invoice.invoice_number)
      [] n = 3 -> TruthyStr(invoice.po_number) /\ TruthyStr(invoice.grn_number)
      [] n = 4 -> TruthyStr(invoice.po_number)
      [] n = 5 -> TruthyStr(invoice.invoice_number)
      [] OTHER -> TruthyStr(invoice.vendor_gst)

HeaderStrategyQuery(n, invoice, grns) ==
    LET Keep(g) ==
            CASE n = 1 -> g.po_number = invoice.po_number
                          /\ g.grn_number = invoice.grn_number
                          /\ g.seller_invoice_number = invoice.invoice_number
              [] n = 2 -> g.po_number = invoice.po_number
                          /\ g.seller_invoice_number = invoice.invoice_number
              [] n = 3 -> g.po_number = invoice.po_number
                          /\ g.grn_number = invoice.grn_number
              [] n = 4 -> g.po_number = invoice.po_number
              [] n = 5 -> g.seller_invoice_number = invoice.invoice_number
              [] OTHER -> g.pickup_gstin = invoice.vendor_gst
    IN  SelectSeq(grns, Keep)

\* _find_grn_matches_hierarchical from strategy n on: the matches returned
\* and the queries that were executed, in order
RECURSIVE FindHeaderFrom(_, _, _, _)
FindHeaderFrom(n, invoice, grns, executed) ==
    IF n > 6 THEN [matches |-> << >>, executed |-> executed]
    ELSE IF ~HeaderStrategyGuard(n, invoice)
         THEN FindHeaderFrom(n + 1, invoice, grns, executed)
         ELSE LET matches == HeaderStrategyQuery(n, invoice, grns)
              IN  IF matches # << >>
                  THEN [matches |-> matches, executed |-> Append(executed, n)]
                  ELSE FindHeaderFrom(n + 1, invoice, grns, Append(executed, n))

\* a finder that leaves out the exact lookup and starts at PO + invoice number
FindHeaderWithoutExact(invoice, grns) == FindHeaderFrom(2, invoice, grns, << >>)

_find_grn_matches_hierarchical(invoice, grns) == FindHeaderFrom(1, invoice, grns, << >>)

----------------------------------------------------------------------------
(* Line level: Description Similarity *)

\* re.sub(r'[^\w\s]', ' ', desc.lower()): punctuation becomes a space
CleanChar(c) == IF c \in {"-", "/", "."} THEN " " ELSE LowerChar(c)

\* ' '.join(cleaned.split()): runs of spaces collapse, the ends are trimmed
RECURSIVE CollapseSpaces(_, _)
CollapseSpaces(s, afterSpace) ==
    IF s = << >> THEN << >>
    ELSE IF Head(s) = " "
         THEN IF afterSpace THEN CollapseSpaces(Tail(s), TRUE)
              ELSE <<" ">> \o CollapseSpaces(Tail(s), TRUE)
         ELSE <<Head(s)>> \o CollapseSpaces(Tail(s), FALSE)

\* clean_description, nested in _calculate_description_similarity
clean_description(desc) ==
    RStrip(CollapseSpaces([i \in 1..Len(desc) |-> CleanChar(desc[i])], TRUE))

\* the length of the common run of a from i and b from j, within ahi and bhi
RECURSIVE CommonRun(_, _, _, _, _, _)
CommonRun(a, b, i, j, ahi, bhi) ==
    IF i > ahi \/ j > bhi \/ a[i] # b[j] THEN 0
    ELSE 1 + CommonRun(a, b, i + 1, j + 1, ahi, bhi)

\* SequenceMatcher.find_longest_match on a[alo..ahi], b[blo..bhi] (no junk):
\* the longest block, of those the earliest in a, of those the earliest in b
find_longest_match(a, b, alo, ahi, blo, bhi) ==
    LET Blocks ==
            {[i |-> i, j |-> j, k |-> CommonRun(a, b, i, j, ahi, bhi)] :
                 i \in alo..ahi, j \in blo..bhi}
        Better(x, y) ==
            \/ x.k > y.k
            \/ x.k = y.k /\ x.i < y.i
            \/ x.k = y.k /\ x.i = y.i /\ x.j <= y.j
    IN  CHOOSE x \in Blocks : \A y \in Blocks : Better(x, y)

\* SequenceMatcher.get_matching_blocks: the summed size of the blocks found
\* by splitting around the longest match, left and right
RECURSIVE MatchingSize(_, _, _, _, _, _)
MatchingSize(a, b, alo, ahi, blo, bhi) ==
    IF alo > ahi \/ blo > bhi THEN 0
    ELSE LET m == find_longest_match(a, b, alo, ahi, blo, bhi)
         IN  IF m.k = 0 THEN 0
             ELSE m.k + MatchingSize(a, b, alo, m.i - 1, blo, m.j - 1)
                      + MatchingSize(a, b, m.i + m.k, ahi, m.j + m.k, bhi)

\* _calculate_description_similarity: SequenceMatcher(...).ratio() as the
\* exact fraction 2*M/T; 0.0 when a description is empty, and ratio() is 1.0
\* when both cleaned texts are empty
_calculate_description_similarity(desc1, desc2) ==
    IF ~TruthyStr(desc1) \/ ~TruthyStr(desc2) THEN Frac(0, 1)
    ELSE LET clean_desc1 == clean_description(desc1)
             clean_desc2 == clean_description(desc2)
             length == Len(clean_desc1) + Len(clean_desc2)
         IN  IF length = 0 THEN Frac(1, 1)
             ELSE Frac(2 * MatchingSize(clean_desc1, clean_desc2,
                                        1, Len(clean_desc1), 1, Len(clean_desc2)),
                       length)

\* similarity >= tenths / 10
SimAtLeast(similarity, tenths) == similarity.num * 10 >= tenths * similarity.den

----------------------------------------------------------------------------
(* Line level: Match Evaluator *)

\* abs(float(a) - float(b)) > 0.1 for two rates in hundredths of a percent.
\* A difference of exactly 0.10 is decided by the rounding of the binary
\* floats: it exceeds 0.1 for the pairs listed (2.5/2.6 and 18/18.1) and does
\* not for the other pairs of RateValues (9/9.1).
FloatDiffExceedsTenth(a, b) ==
    LET d == Abs(a - b)
        lo == IF a < b THEN a ELSE b
    IN  IF d # 10 THEN d > 10 ELSE lo \in {250, 1800}

\* _check_tax_rate_match
_check_tax_rate_match(invoice_item, grn_item) ==
    /\ ~(/\ TruthyNum(invoice_item.cgst_rate) /\ TruthyNum(grn_item.cgst_tax)
         /\ FloatDiffExceedsTenth(invoice_item.cgst_rate[1], grn_item.cgst_tax[1]))
    /\ ~(/\ TruthyNum(invoice_item.sgst_rate) /\ TruthyNum(grn_item.sgst_tax)
         /\ FloatDiffExceedsTenth(invoice_item.sgst_rate[1], grn_item.sgst_tax[1]))
    /\ ~(/\ TruthyNum(invoice_item.igst_rate) /\ TruthyNum(grn_item.igst_tax)
         /\ FloatDiffExceedsTenth(invoice_item.igst_rate[1], grn_item.igst_tax[1]))

\* ', '.join(mismatch_types)
RECURSIVE JoinTags(_)
JoinTags(tags) ==
    IF tags = << >> THEN ""
    ELSE IF Len(tags) = 1 THEN tags[1]
    ELSE tags[1] \o ", " \o JoinTags(Tail(tags))

\* a list that leaves the unit price out
MismatchTypesWithoutPrice(hsn_match, tax_rate_match, amount_ok, quantity_ok, price_ok) ==
    (IF ~hsn_match THEN <<"hsn_mismatch">> ELSE << >>)
    \o (IF ~tax_rate_match THEN <<"tax_rate_mismatch">> ELSE << >>)
    \o (IF ~amount_ok THEN <<"subtotal_mismatch">> ELSE << >>)
    \o (IF ~quantity_ok THEN <<"quantity_mismatch">> ELSE << >>)

\* the mismatch list of _evaluate_single_item_match, in the order it is built
MismatchTypes(hsn_match, tax_rate_match, amount_ok, quantity_ok, price_ok) ==
    (IF ~hsn_match THEN <<"hsn_mismatch">> ELSE << >>)
    \o (IF ~tax_rate_match THEN <<"tax_rate_mismatch">> ELSE << >>)
    \o (IF ~amount_ok THEN <<"subtotal_mismatch">> ELSE << >>)
    \o (IF ~quantity_ok THEN <<"quantity_mismatch">> ELSE << >>)
    \o (IF ~price_ok THEN <<"price_mismatch">> ELSE << >>)

\* _evaluate_single_item_match
_evaluate_single_item_match(invoice_item, grn_item, tolerance) ==
    LET hsn_match ==
            /\ TruthyStr(invoice_item.hsn_code) /\ TruthyStr(grn_item.hsn_no)
            /\ StripUpper(invoice_item.hsn_code) = StripUpper(grn_item.hsn_no)
        tax_rate_match == _check_tax_rate_match(invoice_item, grn_item)
        description_similarity ==
            _calculate_description_similarity(invoice_item.item_description,
                                              grn_item.item_name)
        \* int(description_similarity * 20)
        description_score ==
            (description_similarity.num * 20) \div description_similarity.den
        quantity_evaluation == _evaluate_quantity_match(invoice_item, grn_item, tolerance)
        price_evaluation == _evaluate_price_match(invoice_item, grn_item, tolerance)
        amount_evaluation == _evaluate_amount_match(invoice_item, grn_item, tolerance)
        unit_match ==
            /\ TruthyStr(invoice_item.unit_of_measurement) /\ TruthyStr(grn_item.unit)
            /\ StripUpper(invoice_item.unit_of_measurement) = StripUpper(grn_item.unit)
        score ==
            (IF hsn_match THEN 25 ELSE 0) + (IF tax_rate_match THEN 15 ELSE 0)
            + description_score + quantity_evaluation.score + price_evaluation.score
            + amount_evaluation.score + (IF unit_match THEN 10 ELSE 0)
        mismatch_types ==
            MismatchTypes(hsn_match, tax_rate_match, amount_evaluation.within_tolerance,
                          quantity_evaluation.within_tolerance,
                          price_evaluation.within_tolerance)
    IN  [grn_item |-> grn_item,
         match_score |-> score,
         match_details |->
             [hsn_match |-> hsn_match,
              tax_rate_match |-> tax_rate_match,
              description_similarity |-> description_similarity,
              description_match |-> SimAtLeast(description_similarity, 7),
              quantity_match |-> quantity_evaluation,
              price_match |-> price_evaluation,
              amount_match |-> amount_evaluation,
              unit_match |-> unit_match],
         variances |->
             [quantity_variance |-> quantity_evaluation.variance,
              price_variance |-> price_evaluation.variance,
              amount_variance |-> amount_evaluation.variance],
         mismatch_types |-> mismatch_types,
         match_status |->
             IF Len(mismatch_types) = 0 THEN "perfect_match" ELSE JoinTags(mismatch_types)]

\* _evaluate_grn_item_matches: the first candidate with the highest score
_evaluate_grn_item_matches(invoice_item, grn_matches, tolerance) ==
    BestOf([i \in 1..Len(grn_matches) |->
                _evaluate_single_item_match(invoice_item, grn_matches[i], tolerance)],
           None, -1)

----------------------------------------------------------------------------
(* Line level: Candidate Finder *)

\* _find_grn_item_matches: the matches returned and the queries executed.
\* grn_items is the ItemWiseGrn table in its default order (s_no), which
\* filter() keeps.
_find_grn_item_matches(invoice_item, grn_items) ==
    LET Base(g) == g.po_no = invoice_item.po_number
        Similar(g, tenths) ==
            SimAtLeast(_calculate_description_similarity(invoice_item.item_description,
                                                         g.item_name), tenths)
        run1 == TruthyStr(invoice_item.invoice_number) /\ TruthyStr(invoice_item.hsn_code)
        Keep1(g) == Base(g) /\ g.seller_invoice_no = invoice_item.invoice_number
                    /\ g.hsn_no = invoice_item.hsn_code
        Keep1s(g) == Similar(g, 6)
        similar_matches == SelectSeq(SelectSeq(grn_items, Keep1), Keep1s)
        run2 == TruthyStr(invoice_item.hsn_code)
        Keep2(g) == Base(g) /\ g.hsn_no = invoice_item.hsn_code
        matches2 == SelectSeq(grn_items, Keep2)
        run3 == TruthyStr(invoice_item.invoice_number)
        Keep3(g) == Base(g) /\ g.seller_invoice_no = invoice_item.invoice_number
        matches3 == SelectSeq(grn_items, Keep3)
        run4 == TruthyStr(invoice_item.item_description)
        Keep4(g) == Similar(g, 7)
        similar_items == SelectSeq(SelectSeq(grn_items, Base), Keep4)
        matches5 == SelectSeq(grn_items, Base)
        ex1 == IF run1 THEN <<1>> ELSE << >>
        ex2 == ex1 \o (IF run2 THEN <<2>> ELSE << >>)
        ex3 == ex2 \o (IF run3 THEN <<3>> ELSE << >>)
        ex4 == ex3 \o (IF run4 THEN <<4>> ELSE << >>)
    IN  IF ~TruthyStr(invoice_item.po_number)
        THEN [matches |-> << >>, executed |-> << >>]
        ELSE IF run1 /\ similar_matches # << >>
        THEN [matches |-> similar_matches, executed |-> ex1]
        ELSE IF run2 /\ matches2 # << >>
        THEN [matches |-> matches2, executed |-> ex2]
        ELSE IF run3 /\ matches3 # << >>
        THEN [matches |-> matches3, executed |-> ex3]
        ELSE IF run4 /\ similar_items # << >>
        THEN [matches |-> similar_items, executed |-> ex4]
        ELSE [matches |-> matches5, executed |-> Append(ex4, 5)]

----------------------------------------------------------------------------
(* Line level: Recorder *)

\* InvoiceItemReconciliation.has_significant_variance; percentages are None
\* or an exact fraction
PctOver(pct, limit) ==
    pct # None /\ pct[1].num # 0 /\ Abs(pct[1].num) > limit * Abs(pct[1].den)

has_significant_variance(rec) ==
    \/ ~rec.is_within_amount_tolerance
    \/ ~rec.is_within_quantity_tolerance
    \/ PctOver(rec.quantity_variance_percentage, 10)
    \/ PctOver(rec.subtotal_variance_percentage, 10)
    \/ PctOver(rec.total_amount_variance_percentage, 10)

\* InvoiceItemReconciliation.save: the two flags are set on every save
ItemSave(rec) ==
    [rec EXCEPT
       !.requires_review =
           \/ rec.match_status \in {"amount_mismatch", "quantity_mismatch", "no_match"}
           \/ ~rec.is_within_amount_tolerance
           \/ ~rec.is_within_quantity_tolerance
           \/ has_significant_variance(rec),
       !.is_exception =
           \/ rec.match_status = "no_match"
           \/ PctOver(rec.total_amount_variance_percentage, 15)]

\* safe_variance_extract, safe_percentage_extract and safe_tolerance_extract
\* of _create_item_reconciliation_record.  The evaluator stores each variance
\* as a Decimal, never as a dict, so the percentage is 0.0 and the tolerance
\* is False whatever the evaluation found.
safe_variance_extract(variance_data) == variance_data

safe_percentage_extract(variance_data) == Frac(0, 1)

safe_tolerance_extract(variance_data) == FALSE

\* a status that does not look at the tax rate
OverallStatusWithoutTaxRate(match_flags) ==
    IF /\ match_flags.subtotal /\ match_flags.quantity /\ match_flags.price
       /\ match_flags.hsn
    THEN "complete_match"
    ELSE IF match_flags.subtotal /\ match_flags.hsn
    THEN "conditional_match"
    ELSE "mismatch"

\* overall_status of _create_item_reconciliation_record
overall_status(match_flags) ==
    IF /\ match_flags.subtotal /\ match_flags.quantity /\ match_flags.price
       /\ match_flags.hsn /\ match_flags.tax_rate
    THEN "complete_match"
    ELSE IF match_flags.subtotal /\ match_flags.hsn /\ match_flags.tax_rate
    THEN "conditional_match"
    ELSE "mismatch"

\* a - b of two optional amounts when both are truthy, else None
TaxVariance(a, b) ==
    IF TruthyNum(a) /\ TruthyNum(b) THEN Some(a[1] - b[1]) ELSE None

\* the record data built by _create_item_reconciliation_record and saved by
\* objects.create.  Of the tax components the CGST columns are kept; the SGST,
\* IGST and total tax columns are written by the same expressions.
_create_item_reconciliation_record(invoice_item, match_evaluation, tolerance) ==
    LET grn_item == match_evaluation.grn_item
        match_details == match_evaluation.match_details
        variances == match_evaluation.variances
        match_flags ==
            [subtotal |-> match_details.amount_match.within_tolerance,
             quantity |-> match_details.quantity_match.within_tolerance,
             price |-> match_details.price_match.within_tolerance,
             hsn |-> match_details.hsn_match,
             tax_rate |-> _check_tax_rate_match(invoice_item, grn_item)]
    IN  ItemSave(
        [invoice_data_id |-> invoice_item.invoice_data_id,
         invoice_item_data_id |-> invoice_item.id,
         grn_item_id |-> Some(grn_item.id),
         match_status |-> match_evaluation.match_status,
         match_score |-> Frac(match_evaluation.match_score, 100),
         invoice_item_hsn |-> invoice_item.hsn_code,
         invoice_item_quantity |-> invoice_item.quantity,
         invoice_item_unit_price |-> invoice_item.unit_price,
         invoice_item_subtotal |-> invoice_item.invoice_value_item_wise,
         invoice_item_cgst_amount |-> invoice_item.cgst_amount,
         invoice_item_total_amount |-> invoice_item.item_total_amount,
         grn_item_hsn |-> grn_item.hsn_no,
         grn_item_quantity |-> grn_item.received_qty,
         grn_item_unit_price |-> grn_item.price,
         grn_item_subtotal |-> grn_item.subtotal,
         grn_item_cgst_amount |-> grn_item.cgst_tax_amount,
         grn_item_total_amount |-> grn_item.total,
         quantity_variance |-> Some(safe_variance_extract(variances.quantity_variance)),
         quantity_variance_percentage |->
             Some(safe_percentage_extract(variances.quantity_variance)),
         subtotal_variance |-> Some(safe_variance_extract(variances.amount_variance)),
         subtotal_variance_percentage |->
             Some(safe_percentage_extract(variances.amount_variance)),
         total_amount_variance |-> Some(safe_variance_extract(variances.amount_variance)),
         total_amount_variance_percentage |->
             Some(safe_percentage_extract(variances.amount_variance)),
         unit_rate_variance |-> Some(safe_variance_extract(variances.price_variance)),
         cgst_variance |-> TaxVariance(invoice_item.cgst_amount, grn_item.cgst_tax_amount),
         is_within_amount_tolerance |-> safe_tolerance_extract(variances.amount_variance),
         is_within_quantity_tolerance |->
             safe_tolerance_extract(variances.quantity_variance),
         tolerance_percentage_applied |-> tolerance,
         quantity_tolerance_percentage_applied |-> 500,
         is_auto_matched |-> TRUE,
         manual_match |-> FALSE,
         reconciliation_notes |-> <<"auto">>,
         overall_match_status |-> overall_status(match_flags),
         requires_review |-> FALSE,
         is_exception |-> FALSE])

\* the record data built by _create_no_match_item_record; overall_match_status
\* is left to the column's default, NULL, written "" here
_create_no_match_item_record(invoice_item, tolerance) ==
    ItemSave(
    [invoice_data_id |-> invoice_item.invoice_data_id,
     invoice_item_data_id |-> invoice_item.id,
     grn_item_id |-> None,
     match_status |-> "no_match",
     match_score |-> Frac(0, 1),
     invoice_item_hsn |-> invoice_item.hsn_code,
     invoice_item_quantity |-> invoice_item.quantity,
     invoice_item_unit_price |-> invoice_item.unit_price,
     invoice_item_subtotal |-> invoice_item.invoice_value_item_wise,
     invoice_item_cgst_amount |-> invoice_item.cgst_amount,
     invoice_item_total_amount |-> invoice_item.item_total_amount,
     grn_item_hsn |-> << >>,
     grn_item_quantity |-> None,
     grn_item_unit_price |-> None,
     grn_item_subtotal |-> None,
     grn_item_cgst_amount |-> None,
     grn_item_total_amount |-> None,
     quantity_variance |-> None,
     quantity_variance_percentage |-> None,
     subtotal_variance |-> None,
     subtotal_variance_percentage |-> None,
     total_amount_variance |-> None,
     total_amount_variance_percentage |-> None,
     unit_rate_variance |-> None,
     cgst_variance |-> None,
     is_within_amount_tolerance |-> FALSE,
     is_within_quantity_tolerance |-> FALSE,
     tolerance_percentage_applied |-> tolerance,
     quantity_tolerance_percentage_applied |-> 500,
     is_auto_matched |-> TRUE,
     manual_match |-> FALSE,
     reconciliation_notes |-> <<"auto">>,
     overall_match_status |-> "",
     requires_review |-> FALSE,
     is_exception |-> FALSE])

----------------------------------------------------------------------------
(* Reconciliation Recorder, header level *)

\* The processor passes overall_match_status to InvoiceGrnReconciliation and
\* the rollup and listing views read and write it, but the model class under
\* models/reconciliation.py declares no such column.  The model takes the
\* column to exist, as every caller does; were it absent, each create() of a
\* header record would raise TypeError.
HeaderModelHasOverallStatus == TRUE

\* x or '' / x or 0 of the record data
OrZero(value) == IF TruthyNum(value) THEN value[1] ELSE 0

\* InvoiceGrnReconciliation.is_within_tolerance
is_within_tolerance(rec) ==
    IF rec.total_variance = None \/ rec.grn_total = None \/ rec.grn_total[1] = 0
    THEN FALSE
    ELSE PctLeq(Frac(Abs(rec.total_variance[1]) * 100, Abs(rec.grn_total[1])),
                rec.tolerance_applied, 1)

\* InvoiceGrnReconciliation.save: the two flags are set on every save
HeaderSave(rec) ==
    LET has_pct == rec.total_variance # None /\ rec.grn_total # None
                   /\ rec.grn_total[1] # 0
        \* variance_pct > 10.0
        over_ten == has_pct /\ Abs(rec.total_variance[1]) * 100 > 10 * Abs(rec.grn_total[1])
    IN  [rec EXCEPT
           !.requires_review =
               \/ rec.match_status \in {"amount_mismatch", "vendor_mismatch", "multiple_grn"}
               \/ ~is_within_tolerance(rec)
               \/ rec.total_grn_line_items = 0,
           !.is_exception =
               \/ rec.match_status \in {"no_match", "no_grn_found"}
               \/ over_ten]

\* the record data built by _create_reconciliation_record
_create_reconciliation_record(invoice, match_evaluation, tolerance) ==
    LET grn == match_evaluation.grn_summary
        match_details == match_evaluation.match_details
        variances == match_evaluation.variances
        matching_method ==
            IF match_details.po_match /\ match_details.grn_match /\ match_details.invoice_match
            THEN "exact_match"
            ELSE IF match_details.po_match /\ match_details.grn_match THEN "po_grn_match"
            ELSE IF match_details.po_match THEN "po_only_match"
            ELSE "fallback_match"
    IN  [invoice_data_id |-> invoice.id,
         po_number |-> invoice.po_number,
         grn_number |-> grn.grn_number,
         invoice_number |-> invoice.invoice_number,
         match_status |-> match_evaluation.match_status,
         match_score |-> match_evaluation.match_score,
         vendor_match |-> match_details.vendor_match,
         gst_match |-> IF TruthyStr(invoice.vendor_gst) /\ TruthyStr(grn.pickup_gstin)
                       THEN invoice.vendor_gst = grn.pickup_gstin ELSE FALSE,
         date_valid |-> match_details.date_valid,
         invoice_total |-> Some(OrZero(invoice.invoice_total_post_gst)),
         grn_total |-> Some(OrZero(grn.total_amount)),
         subtotal_variance |-> Some(variances.subtotal_variance.variance_amount),
         cgst_variance |-> Some(variances.cgst_variance.variance_amount),
         sgst_variance |-> Some(variances.sgst_variance.variance_amount),
         igst_variance |-> Some(variances.igst_variance.variance_amount),
         total_variance |-> Some(variances.total_variance.variance_amount),
         total_grn_line_items |-> grn.total_items_count,
         matching_method |-> matching_method,
         is_auto_matched |-> TRUE,
         tolerance_applied |-> tolerance,
         overall_match_status |-> "pending",
         requires_review |-> FALSE,
         is_exception |-> FALSE]

\* the record data built by _create_no_match_record; the columns it leaves
\* out take the model's defaults
_create_no_match_record(invoice, tolerance) ==
    [invoice_data_id |-> invoice.id,
     po_number |-> invoice.po_number,
     grn_number |-> None,
     invoice_number |-> invoice.invoice_number,
     match_status |-> "no_grn_found",
     match_score |-> 0,
     vendor_match |-> FALSE,
     gst_match |-> FALSE,
     date_valid |-> FALSE,
     invoice_total |-> None,
     grn_total |-> None,
     subtotal_variance |-> None,
     cgst_variance |-> None,
     sgst_variance |-> None,
     igst_variance |-> None,
     total_variance |-> None,
     total_grn_line_items |-> 0,
     matching_method |-> "rule_based_matching",
     is_auto_matched |-> TRUE,
     tolerance_applied |-> tolerance,
     overall_match_status |-> "pending",
     requires_review |-> FALSE,
     is_exception |-> FALSE]

\* unique_together = [['invoice_data_id', 'po_number']]
HeaderKeyTaken(rows, data) ==
    \E k \in 1..Len(rows) :
        rows[k].invoice_data_id = data.invoice_data_id /\ rows[k].po_number = data.po_number

\* InvoiceGrnReconciliation.objects.create(**data): save() sets the flags and
\* the INSERT is refused when the unique key is taken (IntegrityError)
HeaderObjectsCreate(rows, data) ==
    IF ~HeaderModelHasOverallStatus \/ HeaderKeyTaken(rows, data)
    THEN [ok |-> FALSE, rows |-> rows]
    ELSE [ok |-> TRUE, rows |-> Append(rows, HeaderSave(data))]

----------------------------------------------------------------------------
(* Inputs of the pure components.  Each action below applies one component *)
(* to inputs drawn from these sets and records inputs and result in probe. *)

NoProbe == [kind |-> "none"]

MaxAmount == 8

MaxGrns == 2

MaxGrnItems == 2

\* tolerance percentages in hundredths of a percent: 0, 2, 5, 12.5, 25, 50
Tolerances == {0, 200, 500, 1250, 2500, 5000}

AmountValues == {None} \cup {Some(v) : v \in 0..MaxAmount}

\* a header record with only the total set
TotalOnlyInvoice(v) ==
    [invoice_value_without_gst |-> None, cgst_amount |-> None, sgst_amount |-> None,
     igst_amount |-> None, invoice_total_post_gst |-> v]

TotalOnlyGrn(v) ==
    [total_subtotal |-> None, total_cgst_amount |-> None, total_sgst_amount |-> None,
     total_igst_amount |-> None, total_amount |-> v]

CalcProbe(which, iv, gv, tol, variance, pct, within, score) ==
    [kind |-> "calc", which |-> which, invoice_value |-> iv, receipt_value |-> gv,
     tolerance |-> tol, variance |-> variance, variance_pct |-> pct,
     within_tolerance |-> within, score |-> score]

CalcHeaderTotal ==
    /\ probe = NoProbe
    /\ \E iv \in AmountValues, gv \in AmountValues, tol \in Tolerances :
        LET out == _evaluate_amount_tolerance(TotalOnlyInvoice(iv), TotalOnlyGrn(gv), tol)
        IN  /\ probe' = CalcProbe("header_total", iv, gv, tol,
                                  out.variances.total_variance.variance_amount,
                                  out.variances.total_variance.variance_pct,
                                  out.within_tolerance, out.score)
            /\ UNCHANGED dbVars

CalcQuantity ==
    /\ probe = NoProbe
    /\ \E iv \in AmountValues, gv \in AmountValues, tol \in Tolerances :
        LET out == _evaluate_quantity_match([quantity |-> iv], [received_qty |-> gv], tol)
        IN  /\ probe' = CalcProbe("quantity", iv, gv, tol, out.variance, out.variance_pct,
                                  out.within_tolerance, out.score)
            /\ UNCHANGED dbVars

CalcPrice ==
    /\ probe = NoProbe
    /\ \E iv \in AmountValues, gv \in AmountValues, tol \in Tolerances :
        LET out == _evaluate_price_match([unit_price |-> iv], [price |-> gv], tol)
        IN  /\ probe' = CalcProbe("unit_price", iv, gv, tol, out.variance, out.variance_pct,
                                  out.within_tolerance, out.score)
            /\ UNCHANGED dbVars

CalcAmount ==
    /\ probe = NoProbe
    /\ \E iv \in AmountValues, gv \in AmountValues, tol \in Tolerances :
        LET out == _evaluate_amount_match([item_total_amount |-> iv], [total |-> gv], tol)
        IN  /\ probe' = CalcProbe("line_total", iv, gv, tol, out.variance, out.variance_pct,
                                  out.within_tolerance, out.score)
            /\ UNCHANGED dbVars

NextCalc == CalcHeaderTotal \/ CalcQuantity \/ CalcPrice \/ CalcAmount

\* header invoices and receipt summaries offered to the evaluator
EvalInvoices ==
    [id : {1},
     po_number : {<< >>, <<"P", "1">>},
     invoice_number : {<< >>, <<"I", "1">>},
     grn_number : {<< >>, <<"G", "1">>},
     vendor_name : {<<"A", "b">>},
     vendor_gst : {<< >>, <<"Z", "9">>},
     invoice_date : {None, Some(10)},
     invoice_value_without_gst : {Some(90)},
     cgst_amount : {Some(5)},
     sgst_amount : {Some(5)},
     igst_amount : {None},
     invoice_total_post_gst : {None, Some(100), Some(102), Some(104), Some(110), Some(150)}]

EvalGrns ==
    [po_number : {<<"p", "1", " ">>, <<"P", "2">>},
     seller_invoice_number : {<<"I", "1">>, <<"I", "2">>},
     grn_number : {<<"g", "1">>, <<"G", "2">>},
     supplier_name : {<<"A", "B", " ", "C">>, <<"C">>},
     pickup_gstin : {<<"z", "9">>},
     grn_created_date : {Some(10), Some(45)},
     total_subtotal : {Some(90)},
     total_cgst_amount : {Some(5)},
     total_sgst_amount : {Some(4)},
     total_igst_amount : {None},
     total_amount : {Some(0), Some(100)},
     total_items_count : {1}]

EvalHeader ==
    /\ probe = NoProbe
    /\ \E invoice \in EvalInvoices, grn \in EvalGrns :
        \E out \in {_evaluate_single_match(invoice, grn, 200, 30)} :
            /\ probe' = [kind |-> "header_eval", invoice |-> invoice, grn |-> grn,
                         tolerance |-> 200, date_tolerance_days |-> 30,
                         out |-> out,
                         record |->
                             HeaderSave(_create_reconciliation_record(invoice, out, 200))]
            /\ UNCHANGED dbVars

\* invoice lines and receipt lines offered to the evaluator
EvalInvoiceItems ==
    [id : {1}, invoice_data_id : {1},
     invoice_value_item_wise : {Some(900)}, cgst_amount : {Some(81)},
     hsn_code : {<< >>, <<"H", "1">>},
     cgst_rate : {None, Some(900)},
     sgst_rate : {None},
     igst_rate : {None, Some(1800)},
     item_description : {<<"a", "b">>},
     quantity : {None, Some(100), Some(108)},
     unit_price : {Some(10), Some(11)},
     item_total_amount : {Some(1000), Some(1030)},
     unit_of_measurement : {<<"K", "G">>}]

EvalGrnItems ==
    [id : {1}, subtotal : {Some(900)}, cgst_tax_amount : {Some(81)},
     hsn_no : {<<"h", "1", " ">>, <<"H", "2">>},
     cgst_tax : {Some(900), Some(910), Some(1200)},
     sgst_tax : {None},
     igst_tax : {Some(1810)},
     item_name : {<<"A", "B">>, <<"a">>, <<"z">>, << >>},
     received_qty : {Some(100)},
     price : {Some(10)},
     total : {Some(1000), Some(0)},
     unit : {<<"k", "g">>, << >>}]

\* match_score / 100 as stored by _create_item_reconciliation_record
NormalizedItemScore(match_score) == Frac(match_score, 100)

EvalItem ==
    /\ probe = NoProbe
    /\ \E invoice_item \in EvalInvoiceItems, grn_item \in EvalGrnItems, tol \in {200, 500} :
        \E out \in {_evaluate_single_item_match(invoice_item, grn_item, tol)} :
            /\ probe' = [kind |-> "item_eval", invoice_item |-> invoice_item,
                         grn_item |-> grn_item, tolerance |-> tol, out |-> out,
                         stored_score |-> NormalizedItemScore(out.match_score),
                         record |->
                             _create_item_reconciliation_record(invoice_item, out, tol)]
            /\ UNCHANGED dbVars

\* tables of at most n rows drawn from rows, in every order
TablesUpTo(rows, n) == UNION {[1..k -> rows] : k \in 0..n}

\* candidate lists offered to the two selecting evaluators
MaxCandidates == 3

SelectInvoices ==
    [id : {1},
     po_number : {<<"P", "1">>},
     invoice_number : {<<"I", "1">>},
     grn_number : {<<"G", "1">>},
     vendor_name : {<<"A", "b">>},
     vendor_gst : {<<"Z", "9">>},
     invoice_date : {Some(10)},
     invoice_value_without_gst : {Some(90)},
     cgst_amount : {Some(5)},
     sgst_amount : {Some(5)},
     igst_amount : {None},
     invoice_total_post_gst : {Some(100), Some(150)}]

\* receipt summaries with different scores, and summaries that differ only
\* in pickup_gstin, which the score does not read
SelectGrns ==
    [po_number : {<<"P", "1">>},
     seller_invoice_number : {<<"I", "1">>, <<"I", "2">>},
     grn_number : {<<"G", "1">>},
     supplier_name : {<<"A", "B">>},
     pickup_gstin : {<<"Z", "9">>, <<"Y", "8">>},
     grn_created_date : {Some(10)},
     total_subtotal : {Some(90)},
     total_cgst_amount : {Some(5)},
     total_sgst_amount : {Some(5)},
     total_igst_amount : {None},
     total_amount : {Some(100), Some(150)},
     total_items_count : {1}]

SelectHeader ==
    /\ probe = NoProbe
    /\ \E invoice \in SelectInvoices, grn_matches \in TablesUpTo(SelectGrns, MaxCandidates) :
        /\ probe' = [kind |-> "header_select", candidates |-> grn_matches,
                     evaluations |->
                         [i \in 1..Len(grn_matches) |->
                             _evaluate_single_match(invoice, grn_matches[i], 200, 30)],
                     out |-> _evaluate_grn_matches(invoice, grn_matches, 200, 30)]
        /\ UNCHANGED dbVars

SelectInvoiceItems ==
    [id : {1}, invoice_data_id : {1},
     invoice_value_item_wise : {Some(900)}, cgst_amount : {Some(81)},
     hsn_code : {<<"H", "1">>},
     cgst_rate : {Some(900)},
     sgst_rate : {None},
     igst_rate : {None},
     item_description : {<<"a", "b">>},
     quantity : {Some(100)},
     unit_price : {Some(10)},
     item_total_amount : {Some(1000)},
     unit_of_measurement : {<<"K", "G">>}]

\* receipt lines with different scores, and lines that differ only in id
SelectGrnItems ==
    [id : {1, 2}, subtotal : {Some(900)}, cgst_tax_amount : {Some(81)},
     hsn_no : {<<"H", "1">>, <<"H", "2">>},
     cgst_tax : {Some(900)},
     sgst_tax : {None},
     igst_tax : {None},
     item_name : {<<"a", "b">>},
     received_qty : {Some(100), Some(50)},
     price : {Some(10)},
     total : {Some(1000)},
     unit : {<<"k", "g">>}]

SelectItem ==
    /\ probe = NoProbe
    /\ \E invoice_item \in SelectInvoiceItems,
          grn_matches \in TablesUpTo(SelectGrnItems, MaxCandidates) :
        /\ probe' = [kind |-> "item_select", candidates |-> grn_matches,
                     evaluations |->
                         [i \in 1..Len(grn_matches) |->
                             _evaluate_single_item_match(invoice_item, grn_matches[i], 200)],
                     out |-> _evaluate_grn_item_matches(invoice_item, grn_matches, 200)]
        /\ UNCHANGED dbVars

\* invoices offered to the header finder: each key present or missing
FindInvoices ==
    [po_number : {<< >>, <<"P", "1">>}, grn_number : {<< >>, <<"G", "1">>},
     invoice_number : {<< >>, <<"I", "1">>}, vendor_gst : {<< >>, <<"Z", "9">>}]

FindGrns ==
    [po_number : {<<"P", "1">>, <<"P", "2">>}, grn_number : {<<"G", "1">>, <<"G", "2">>},
     seller_invoice_number : {<<"I", "1">>, <<"I", "2">>},
     pickup_gstin : {<<"Z", "9">>, <<"Y", "8">>}]

FindHeader ==
    /\ probe = NoProbe
    /\ \E invoice \in FindInvoices, grns \in TablesUpTo(FindGrns, MaxGrns) :
        /\ probe' = [kind |-> "header_find", invoice |-> invoice, grns |-> grns,
                     out |-> _find_grn_matches_hierarchical(invoice, grns)]
        /\ UNCHANGED dbVars

\* invoice lines offered to the line finder
FindInvoiceItems ==
    [po_number : {<< >>, <<"P", "1">>}, invoice_number : {<< >>, <<"I", "1">>},
     hsn_code : {<< >>, <<"H", "1">>}, item_description : {<< >>, <<"a", "b">>}]

\* receipt lines: item_name is equal to the invoice's description (similarity
\* 1), two thirds similar to it, or has nothing in common with it
FindGrnItems ==
    [po_no : {<<"P", "1">>, <<"P", "2">>}, seller_invoice_no : {<<"I", "1">>, <<"I", "2">>},
     hsn_no : {<<"H", "1">>, <<"H", "2">>},
     item_name : {<<"a", "b">>, <<"a">>, <<"z">>}]

FindLine ==
    /\ probe = NoProbe
    /\ \E invoice_item \in FindInvoiceItems, grn_items \in TablesUpTo(FindGrnItems, MaxGrnItems) :
        /\ probe' = [kind |-> "line_find", invoice_item |-> invoice_item,
                     grn_items |-> grn_items,
                     out |-> _find_grn_item_matches(invoice_item, grn_items)]
        /\ UNCHANGED dbVars

NextFind == FindHeader \/ FindLine

----------------------------------------------------------------------------
(* Stored data: invoices and receipt summaries *)

NInvoices == 3

MaxRuns == 2

MaxFailures == 1

Invoices == 1..NInvoices

Runs == 1..MaxRuns

\* InvoiceData rows.  Three kinds of invoice repeat along the ids: one that
\* matches receipt summary 1 exactly, one whose purchase order is found but
\* whose total is 50 % above the receipt's, and one with no receipt at all.
InvoiceRow(id) ==
    CASE id % 3 = 1 ->
           [id |-> id, processing_status |-> "completed",
            po_number |-> <<"P", "1">>, invoice_number |-> <<"I", "1">>,
            grn_number |-> <<"G", "1">>, vendor_name |-> <<"A", "b">>,
            vendor_gst |-> <<"Z", "9">>, invoice_date |-> Some(10),
            invoice_value_without_gst |-> Some(90), cgst_amount |-> Some(5),
            sgst_amount |-> Some(5), igst_amount |-> None,
            invoice_total_post_gst |-> Some(100)]
      [] id % 3 = 2 ->
           [id |-> id, processing_status |-> "completed",
            po_number |-> <<"P", "2">>, invoice_number |-> <<"I", "2">>,
            grn_number |-> << >>, vendor_name |-> <<"A", "b">>,
            vendor_gst |-> << >>, invoice_date |-> Some(10),
            invoice_value_without_gst |-> Some(140), cgst_amount |-> Some(5),
            sgst_amount |-> Some(5), igst_amount |-> None,
            invoice_total_post_gst |-> Some(150)]
      [] OTHER ->
           [id |-> id, processing_status |-> "completed",
            po_number |-> <<"P", "3">>, invoice_number |-> <<"I", "3">>,
            grn_number |-> << >>, vendor_name |-> <<"A", "b">>,
            vendor_gst |-> << >>, invoice_date |-> None,
            invoice_value_without_gst |-> Some(10), cgst_amount |-> None,
            sgst_amount |-> None, igst_amount |-> None,
            invoice_total_post_gst |-> Some(10)]

\* GrnSummary rows in the table's default order
GrnTable ==
    <<[po_number |-> <<"P", "1">>, grn_number |-> <<"G", "1">>,
       seller_invoice_number |-> <<"I", "1">>, supplier_name |-> <<"A", "B">>,
       pickup_gstin |-> <<"Z", "9">>, grn_created_date |-> Some(12),
       total_subtotal |-> Some(90), total_cgst_amount |-> Some(5),
       total_sgst_amount |-> Some(5), total_igst_amount |-> None,
       total_amount |-> Some(100), total_items_count |-> 2],
      [po_number |-> <<"P", "2">>, grn_number |-> <<"G", "2">>,
       seller_invoice_number |-> <<"I", "9">>, supplier_name |-> <<"C">>,
       pickup_gstin |-> <<"Y", "8">>, grn_created_date |-> Some(12),
       total_subtotal |-> Some(90), total_cgst_amount |-> Some(5),
       total_sgst_amount |-> Some(5), total_igst_amount |-> None,
       total_amount |-> Some(100), total_items_count |-> 1]>>

\* the invoice ids of a request in the order InvoiceData's default ordering
\* (-created_at) returns them: newest, that is highest id, first
RECURSIVE DescendingIds(_)
DescendingIds(ids) ==
    IF ids = {} THEN << >>
    ELSE LET top == CHOOSE x \in ids : \A y \in ids : y <= x
         IN  <<top>> \o DescendingIds(ids \ {top})

\* InvoiceData.objects.filter(id__in=invoice_ids, processing_status='completed'),
\* or every completed invoice when invoice_ids is empty or None
QueryInvoices(invoice_ids) ==
    LET wanted == IF invoice_ids = {} THEN Invoices ELSE invoice_ids
    IN  DescendingIds({id \in wanted : InvoiceRow(id).processing_status = "completed"})

----------------------------------------------------------------------------
(* Batch Orchestrator, header level: process_batch_async *)

ZeroStats ==
    [total_processed |-> 0, perfect_matches |-> 0, partial_matches |-> 0,
     amount_mismatches |-> 0, vendor_mismatches |-> 0, date_mismatches |-> 0,
     no_matches |-> 0, errors |-> 0]

\* a processor before process_batch_async is called
IdleRun ==
    [pc |-> "idle", tolerance |-> 0, date_tolerance_days |-> 0, invoices |-> << >>,
     i |-> 1, stats |-> ZeroStats, batch |-> None, success |-> "pending",
     last |-> None, raised |-> 0]

\* tolerance settings a request may carry (2 % and 50 %)
RunTolerances == {200, 5000}

\* ReconciliationBatch.objects.create in _create_reconciliation_batch: a new
\* row under a fresh batch_id, every counter 0 and status at its default
_create_reconciliation_batch(rows, tolerance, date_tolerance_days) ==
    Append(rows,
           [batch_id |-> Len(rows) + 1, status |-> "running", total_invoices |-> 0,
            processed_invoices |-> 0, perfect_matches |-> 0, partial_matches |-> 0,
            exceptions |-> 0, no_matches |-> 0, tolerance_percentage |-> tolerance,
            date_tolerance_days |-> date_tolerance_days])

\* a save that writes to the first row of the table, whichever batch it is
BatchSaveFirstRow(rows, batch) == [rows EXCEPT ![1] = batch]

\* batch.save(): the row of the batch takes every field of the object
BatchSave(rows, batch) == [rows EXCEPT ![batch.batch_id] = batch]

\* _update_statistics
_update_statistics(stats, match_status) ==
    CASE match_status = "perfect_match" ->
           [stats EXCEPT !.perfect_matches = @ + 1]
      [] match_status = "partial_match" ->
           [stats EXCEPT !.partial_matches = @ + 1]
      [] match_status = "amount_mismatch" ->
           [stats EXCEPT !.amount_mismatches = @ + 1]
      [] match_status = "vendor_mismatch" ->
           [stats EXCEPT !.vendor_mismatches = @ + 1]
      [] match_status = "date_mismatch" ->
           [stats EXCEPT !.date_mismatches = @ + 1]
      [] match_status = "no_grn_found" ->
           [stats EXCEPT !.no_matches = @ + 1]
      [] OTHER -> stats

\* the fields _complete_reconciliation_batch sets on the batch object
_complete_reconciliation_batch(batch, stats) ==
    [batch EXCEPT
       !.processed_invoices = stats.total_processed,
       !.perfect_matches = stats.perfect_matches,
       !.partial_matches = stats.partial_matches,
       !.exceptions = stats.amount_mismatches + stats.vendor_mismatches
                      + stats.date_mismatches,
       !.no_matches = stats.no_matches,
       !.status = "completed"]

\* a loop whose handler logs the failure of a pass but does not count it
StatsAfterUncounted(stats, fault, no_candidate, created_ok, match_status) ==
    LET stats1 == IF fault # "find" /\ no_candidate
                  THEN [stats EXCEPT !.no_matches = @ + 1] ELSE stats
        stats2 == IF created_ok /\ ~no_candidate
                  THEN _update_statistics(stats1, match_status) ELSE stats1
    IN  IF created_ok THEN [stats2 EXCEPT !.total_processed = @ + 1] ELSE stats2

\* The counters after one pass of the loop body of process_batch_async.
\* _process_single_invoice counts a missing receipt before it records it and
\* counts the status of a match after the record is created; the loop counts
\* the invoice as processed when _process_single_invoice returned and counts
\* an error when it, or the progress save after it, raised.
StatsAfter(stats, fault, no_candidate, created_ok, match_status) ==
    LET stats1 == IF fault # "find" /\ no_candidate
                  THEN [stats EXCEPT !.no_matches = @ + 1] ELSE stats
        stats2 == IF created_ok /\ ~no_candidate
                  THEN _update_statistics(stats1, match_status) ELSE stats1
        stats3 == IF created_ok THEN [stats2 EXCEPT !.total_processed = @ + 1] ELSE stats2
    IN  IF ~created_ok \/ fault = "save_progress"
        THEN [stats3 EXCEPT !.errors = @ + 1] ELSE stats3

\* what one pass of the loop did; the run keeps the entry of its last pass
\* and the number of passes that raised, for the properties
LogEntry(invoice, fault, found, data, rows, rows_after, created_ok, before, after) ==
    [invoice |-> invoice.id, fault |-> fault,
     candidates |-> Len(found.matches), executed |-> found.executed,
     existed |-> HeaderKeyTaken(rows, data),
     conflict |-> fault \notin {"find", "create"} /\ HeaderKeyTaken(rows, data),
     created |-> created_ok,
     stored |-> \E k \in 1..Len(rows_after) :
                   /\ rows_after[k].invoice_data_id = data.invoice_data_id
                   /\ rows_after[k].po_number = data.po_number
                   /\ rows_after[k].match_status = data.match_status
                   /\ rows_after[k].tolerance_applied = data.tolerance_applied,
     raised |-> ~created_ok \/ fault = "save_progress",
     status |-> data.match_status,
     d_errors |-> after.errors - before.errors,
     d_no_matches |-> after.no_matches - before.no_matches,
     d_processed |-> after.total_processed - before.total_processed]

\* process_batch_async up to the loop: the batch is created, the invoices
\* are read and the batch total is saved.  A failure of one of the three
\* storage calls is caught by the outer handler, which only returns.
\* Runs are numbered in the order they start.
StartRun(r) ==
    /\ runs[r].pc = "idle"
    /\ r > 1 => runs[r - 1].pc # "idle"
    /\ \E tolerance \in RunTolerances,
          invoice_ids \in {{}} \cup {{id} : id \in Invoices},
          fault \in {"none", "create_batch", "query", "save_total"} :
         LET rows1 == _create_reconciliation_batch(batches, tolerance, 30)
             batch == rows1[Len(rows1)]
             invoices == QueryInvoices(invoice_ids)
             batch2 == [batch EXCEPT !.total_invoices = Len(invoices)]
             started == [IdleRun EXCEPT !.tolerance = tolerance,
                                         !.date_tolerance_days = 30]
         IN  /\ fault # "none" => failures < MaxFailures
             /\ failures' = IF fault = "none" THEN failures ELSE failures + 1
             /\ CASE fault = "create_batch" ->
                       /\ batches' = batches
                       /\ runs' = [runs EXCEPT ![r] =
                                     [started EXCEPT !.pc = "returned", !.success = "false"]]
                  [] fault = "query" ->
                       /\ batches' = rows1
                       /\ runs' = [runs EXCEPT ![r] =
                                     [started EXCEPT !.pc = "returned", !.success = "false",
                                                     !.batch = Some(batch)]]
                  [] fault = "save_total" ->
                       /\ batches' = rows1
                       /\ runs' = [runs EXCEPT ![r] =
                                     [started EXCEPT !.pc = "returned", !.success = "false",
                                                     !.batch = Some(batch2)]]
                  [] OTHER ->
                       /\ batches' = BatchSave(rows1, batch2)
                       /\ runs' = [runs EXCEPT ![r] =
                                     [started EXCEPT !.pc = "loop", !.invoices = invoices,
                                                     !.batch = Some(batch2)]]
    /\ UNCHANGED <<hdrRecs, probe, postVars>>

\* One pass of the loop body: _process_single_invoice for the next invoice of
\* the run, then the progress save.  fault names the storage call that fails
\* for a reason of its own: the receipt query, the create, or the progress
\* save.  A create also fails when the table refuses the row.
ProcessInvoice(r) ==
    /\ runs[r].pc = "loop"
    /\ runs[r].i <= Len(runs[r].invoices)
    /\ \E fault \in {"none", "find", "create", "save_progress"},
          invoice \in {InvoiceRow(runs[r].invoices[runs[r].i])} :
       \E found \in {_find_grn_matches_hierarchical(invoice, GrnTable)} :
       \E best_match \in {_evaluate_grn_matches(invoice, found.matches, runs[r].tolerance,
                                                runs[r].date_tolerance_days)} :
       \E data \in {IF found.matches = << >>
                    THEN _create_no_match_record(invoice, runs[r].tolerance)
                    ELSE _create_reconciliation_record(invoice, best_match,
                                                       runs[r].tolerance)} :
       \E created \in {IF fault \in {"find", "create"}
                       THEN [ok |-> FALSE, rows |-> hdrRecs]
                       ELSE HeaderObjectsCreate(hdrRecs, data)} :
       \E stats \in {StatsAfter(runs[r].stats, fault, found.matches = << >>, created.ok,
                                IF created.ok
                                THEN created.rows[Len(created.rows)].match_status
                                ELSE data.match_status)} :
         LET batch == IF created.ok
                      THEN [runs[r].batch[1] EXCEPT
                              !.processed_invoices = stats.total_processed]
                      ELSE runs[r].batch[1]
         IN  /\ fault # "none" => failures < MaxFailures
             /\ failures' = IF fault = "none" THEN failures ELSE failures + 1
             /\ hdrRecs' = created.rows
             /\ batches' = IF created.ok /\ fault # "save_progress"
                           THEN BatchSave(batches, batch) ELSE batches
             /\ runs' = [runs EXCEPT ![r] =
                           [@ EXCEPT !.i = @ + 1, !.stats = stats,
                                     !.batch = Some(batch),
                                     !.last = Some(LogEntry(invoice, fault, found, data,
                                                            hdrRecs, created.rows, created.ok,
                                                            runs[r].stats, stats)),
                                     !.raised = IF ~created.ok \/ fault = "save_progress"
                                                THEN @ + 1 ELSE @]]
    /\ UNCHANGED <<probe, postVars>>

\* after the loop: _complete_reconciliation_batch and the return.  When the
\* save fails the outer handler returns success False.
CompleteRun(r) ==
    /\ runs[r].pc = "loop"
    /\ runs[r].i > Len(runs[r].invoices)
    /\ \E fault \in {"none", "save_final"} :
         LET batch == _complete_reconciliation_batch(runs[r].batch[1], runs[r].stats)
         IN  /\ fault # "none" => failures < MaxFailures
             /\ failures' = IF fault = "none" THEN failures ELSE failures + 1
             /\ batches' = IF fault = "none" THEN BatchSave(batches, batch) ELSE batches
             /\ runs' = [runs EXCEPT ![r] =
                           [@ EXCEPT !.pc = "returned", !.batch = Some(batch),
                                     !.success = IF fault = "none" THEN "true" ELSE "false"]]
    /\ UNCHANGED <<hdrRecs, probe, postVars>>

----------------------------------------------------------------------------
(* Unified reconciliation request: the two RuleBasedReconciliationAPI views *)
(* (header run, matched flags, line run, receipt status, overall status)    *)

\* InvoiceData rows by id.  Invoice 1 matches receipt summary G1 on every
\* key, invoice 2 reaches G1 through PO and GRN number only, invoice 3
\* reaches it through the PO alone with a total 50 % above the receipt's,
\* invoice 4 matches receipt summary G2 on every key.
PostInvoiceTable ==
    <<[id |-> 1, processing_status |-> "completed", failure_reason |-> None,
       duplicates |-> FALSE,
       po_number |-> <<"P", "1">>, invoice_number |-> <<"I", "1">>,
       grn_number |-> <<"G", "1">>, vendor_name |-> <<"A", "b">>,
       vendor_gst |-> <<"Z", "9">>, invoice_date |-> Some(10),
       invoice_value_without_gst |-> Some(90), cgst_amount |-> Some(5),
       sgst_amount |-> Some(5), igst_amount |-> None,
       invoice_total_post_gst |-> Some(100)],
      [id |-> 2, processing_status |-> "completed", failure_reason |-> None,
       duplicates |-> FALSE,
       po_number |-> <<"P", "1">>, invoice_number |-> <<"I", "2">>,
       grn_number |-> <<"G", "1">>, vendor_name |-> <<"A", "b">>,
       vendor_gst |-> <<"Z", "9">>, invoice_date |-> Some(10),
       invoice_value_without_gst |-> Some(90), cgst_amount |-> Some(5),
       sgst_amount |-> Some(5), igst_amount |-> None,
       invoice_total_post_gst |-> Some(100)],
      [id |-> 3, processing_status |-> "completed", failure_reason |-> None,
       duplicates |-> FALSE,
       po_number |-> <<"P", "1">>, invoice_number |-> << >>,
       grn_number |-> << >>, vendor_name |-> <<"X", "y">>,
       vendor_gst |-> << >>, invoice_date |-> None,
       invoice_value_without_gst |-> Some(140), cgst_amount |-> Some(5),
       sgst_amount |-> Some(5), igst_amount |-> None,
       invoice_total_post_gst |-> Some(150)],
      [id |-> 4, processing_status |-> "completed", failure_reason |-> None,
       duplicates |-> FALSE,
       po_number |-> <<"P", "2">>, invoice_number |-> <<"I", "4">>,
       grn_number |-> <<"G", "2">>, vendor_name |-> <<"A", "b">>,
       vendor_gst |-> <<"Z", "9">>, invoice_date |-> Some(10),
       invoice_value_without_gst |-> Some(90), cgst_amount |-> Some(5),
       sgst_amount |-> Some(5), igst_amount |-> None,
       invoice_total_post_gst |-> Some(100)]>>

\* GrnSummary rows in the table's default order
PostGrnTable ==
    <<[po_number |-> <<"P", "1">>, grn_number |-> <<"G", "1">>,
       seller_invoice_number |-> <<"I", "1">>, supplier_name |-> <<"A", "B">>,
       pickup_gstin |-> <<"Z", "9">>, grn_created_date |-> Some(12),
       total_subtotal |-> Some(90), total_cgst_amount |-> Some(5),
       total_sgst_amount |-> Some(5), total_igst_amount |-> None,
       total_amount |-> Some(100), total_items_count |-> 1],
      [po_number |-> <<"P", "2">>, grn_number |-> <<"G", "2">>,
       seller_invoice_number |-> <<"I", "4">>, supplier_name |-> <<"A", "B">>,
       pickup_gstin |-> <<"Z", "9">>, grn_created_date |-> Some(12),
       total_subtotal |-> Some(90), total_cgst_amount |-> Some(5),
       total_sgst_amount |-> Some(5), total_igst_amount |-> None,
       total_amount |-> Some(100), total_items_count |-> 1]>>

\* InvoiceItemData rows ordered by (invoice_data_id, item_sequence).  The
\* line of invoice 1 equals its receipt line; the lines of invoices 2 and 4
\* bill 108 units against 100 received; the second line of invoice 2 bills
\* a total of 1100 against 1000; the line of invoice 3 has another tax code
\* and no quantity; the second line of invoice 4 carries no PO number and
\* finds no receipt line.
PostInvoiceItem(id, invoice_data_id, item_sequence, po_number, invoice_number, hsn_code, quantity) ==
    [id |-> id, invoice_data_id |-> invoice_data_id, item_sequence |-> item_sequence,
     po_number |-> po_number, invoice_number |-> invoice_number, hsn_code |-> hsn_code,
     item_description |-> <<"a", "b">>, quantity |-> quantity,
     unit_price |-> Some(10), item_total_amount |-> Some(1000),
     unit_of_measurement |-> <<"K", "G">>,
     cgst_rate |-> Some(900), sgst_rate |-> None, igst_rate |-> None,
     invoice_value_item_wise |-> Some(900), cgst_amount |-> Some(81)]

PostInvoiceItems ==
    <<PostInvoiceItem(1, 1, 1, <<"P", "1">>, <<"I", "1">>, <<"H", "1">>, Some(100)),
      PostInvoiceItem(2, 2, 1, <<"P", "1">>, <<"I", "2">>, <<"H", "1">>, Some(108)),
      [PostInvoiceItem(6, 2, 2, <<"P", "1">>, <<"I", "2">>, <<"H", "1">>, Some(100))
         EXCEPT !.item_total_amount = Some(1100)],
      PostInvoiceItem(3, 3, 1, <<"P", "1">>, << >>, <<"H", "9">>, None),
      PostInvoiceItem(4, 4, 1, <<"P", "2">>, <<"I", "4">>, <<"H", "1">>, Some(108)),
      PostInvoiceItem(5, 4, 2, << >>, <<"I", "4">>, <<"H", "1">>, Some(100))>>

\* ItemWiseGrn rows in the table's default order
PostGrnItem(id, po_no, seller_invoice_no) ==
    [id |-> id, po_no |-> po_no, seller_invoice_no |-> seller_invoice_no,
     hsn_no |-> <<"H", "1">>, item_name |-> <<"a", "b">>,
     received_qty |-> Some(100), price |-> Some(10), total |-> Some(1000),
     unit |-> <<"k", "g">>, cgst_tax |-> Some(900), sgst_tax |-> None,
     igst_tax |-> None, subtotal |-> Some(900), cgst_tax_amount |-> Some(81)]

PostGrnItems ==
    <<PostGrnItem(1, <<"P", "1">>, <<"I", "1">>),
      PostGrnItem(2, <<"P", "2">>, <<"I", "4">>)>>

PostInvoiceIds == 1..Len(PostInvoiceTable)

\* requests handled one after the other, and ids named in one request
MaxPosts == 2

MaxRequestIds == 2

\* process_batch_async over the invoices of the query when no storage call
\* fails: the header table and the counters after the loop
RECURSIVE ProcessInvoices(_, _, _, _, _)
ProcessInvoices(invoices, rows, stats, tolerance, date_tolerance_days) ==
    IF invoices = << >> THEN [rows |-> rows, stats |-> stats]
    ELSE LET invoice == Head(invoices)
             found == _find_grn_matches_hierarchical(invoice, PostGrnTable)
             data ==
                 IF found.matches = << >>
                 THEN _create_no_match_record(invoice, tolerance)
                 ELSE _create_reconciliation_record(
                          invoice,
                          _evaluate_grn_matches(invoice, found.matches, tolerance,
                                                date_tolerance_days),
                          tolerance)
             created == HeaderObjectsCreate(rows, data)
         IN  ProcessInvoices(Tail(invoices), created.rows,
                             StatsAfter(stats, "none", found.matches = << >>, created.ok,
                                        data.match_status),
                             tolerance, date_tolerance_days)

\* the invoices process_batch_async queries for a list of ids (every
\* completed invoice when the list is empty or None), newest first
PostQueryInvoices(invoice_ids) ==
    LET wanted == IF invoice_ids = {} THEN PostInvoiceIds ELSE invoice_ids
        ids == DescendingIds({id \in wanted :
                                 PostInvoiceTable[id].processing_status = "completed"})
    IN  [k \in 1..Len(ids) |-> PostInvoiceTable[ids[k]]]

\* the counters of ItemWiseReconciliationProcessor.__init__
ZeroItemStats ==
    [total_items_processed |-> 0, perfect_matches |-> 0, partial_matches |-> 0,
     quantity_mismatches |-> 0, price_mismatches |-> 0, hsn_mismatches |-> 0,
     description_mismatches |-> 0, no_matches |-> 0, errors |-> 0]

InTags(tag, mismatch_types) == \E k \in 1..Len(mismatch_types) : mismatch_types[k] = tag

\* _update_item_statistics; 'tag' in match_status is read off the tag list
\* the status was joined from.  The counters tax_rate_mismatches and
\* subtotal_mismatches do not exist: incrementing them raises KeyError.
_update_item_statistics(stats, match_status, mismatch_types) ==
    IF match_status = "perfect_match"
    THEN [ok |-> TRUE, stats |-> [stats EXCEPT !.perfect_matches = @ + 1]]
    ELSE IF InTags("hsn_mismatch", mismatch_types)
    THEN [ok |-> TRUE, stats |-> [stats EXCEPT !.hsn_mismatches = @ + 1]]
    ELSE IF InTags("tax_rate_mismatch", mismatch_types)
    THEN [ok |-> FALSE, stats |-> stats]
    ELSE IF InTags("subtotal_mismatch", mismatch_types)
    THEN [ok |-> FALSE, stats |-> stats]
    ELSE IF InTags("quantity_mismatch", mismatch_types)
    THEN [ok |-> TRUE, stats |-> [stats EXCEPT !.quantity_mismatches = @ + 1]]
    ELSE IF InTags("price_mismatch", mismatch_types)
    THEN [ok |-> TRUE, stats |-> [stats EXCEPT !.price_mismatches = @ + 1]]
    ELSE IF match_status \in {"no_match", "no_grn_item_found"}
    THEN [ok |-> TRUE, stats |-> [stats EXCEPT !.no_matches = @ + 1]]
    ELSE [ok |-> TRUE, stats |-> [stats EXCEPT !.partial_matches = @ + 1]]

\* process_items_for_invoices: the loop over the invoice lines.  A line
\* record is inserted under a batch id of its own, so the insert is never
\* refused; a failure of the statistics update after the insert counts the
\* line as an error.
RECURSIVE ProcessItems(_, _, _, _)
ProcessItems(invoice_items, rows, stats, tolerance) ==
    IF invoice_items = << >> THEN [rows |-> rows, stats |-> stats]
    ELSE LET invoice_item == Head(invoice_items)
             grn_matches == _find_grn_item_matches(invoice_item, PostGrnItems).matches
             best_match == _evaluate_grn_item_matches(invoice_item, grn_matches, tolerance)
             counted == _update_item_statistics(stats, best_match.match_status,
                                                best_match.mismatch_types)
         IN  IF grn_matches = << >>
             THEN ProcessItems(Tail(invoice_items),
                               Append(rows,
                                      _create_no_match_item_record(invoice_item, tolerance)),
                               [stats EXCEPT !.no_matches = @ + 1,
                                             !.total_items_processed = @ + 1],
                               tolerance)
             ELSE ProcessItems(Tail(invoice_items),
                               Append(rows,
                                      _create_item_reconciliation_record(
                                          invoice_item, best_match, tolerance)),
                               IF counted.ok
                               THEN [counted.stats EXCEPT !.total_items_processed = @ + 1]
                               ELSE [stats EXCEPT !.errors = @ + 1],
                               tolerance)

\* InvoiceItemData.objects.filter(invoice_data_id__in=invoice_ids), or every
\* line when invoice_ids is empty or None, by (invoice_data_id, item_sequence)
PostQueryItems(invoice_ids) ==
    LET Wanted(item) == invoice_ids = {} \/ item.invoice_data_id \in invoice_ids
    IN  SelectSeq(PostInvoiceItems, Wanted)

\* _update_matched_status_for_invoices: the invoices of the request that
\* have a perfect or partial header record get matched = True
_update_matched_status_for_invoices(rows, invoice_ids, matched_ids) ==
    matched_ids \cup
        {rows[k].invoice_data_id : k \in
            {j \in 1..Len(rows) :
                /\ rows[j].invoice_data_id \in invoice_ids
                /\ rows[j].match_status \in {"perfect_match", "partial_match"}}}

\* str.rsplit(sep, 1): the parts around the last sep, or the string alone
RSplitOnce(s, sep) ==
    LET at == {i \in 1..Len(s) : s[i] = sep}
    IN  IF at = {} THEN <<s>>
        ELSE LET k == CHOOSE i \in at : \A j \in at : j <= i
             IN  <<SubSeq(s, 1, k - 1), SubSeq(s, k + 1, Len(s))>>

\* f"{grn_number}_{po_number}"
GrnKey(rec) == rec.grn_number \o <<"_">> \o rec.po_number

\* GRN and PO numbers with and without the two separator characters
KeyNumbers == UNION {[1..n -> {"G", "1", "_", "/"}] : n \in 1..2}

\* the grouping key of _update_grn_summary_status built from a pair of
\* numbers and split again, at the separator of either view
SplitKey ==
    /\ probe = NoProbe
    /\ \E grn_number \in KeyNumbers, po_number \in KeyNumbers, sep \in {"/", "_"} :
        \E key \in {GrnKey([grn_number |-> grn_number, po_number |-> po_number])} :
            /\ probe' = [kind |-> "grn_key", grn_number |-> grn_number,
                         po_number |-> po_number, sep |-> sep, key |-> key,
                         parts |-> RSplitOnce(key, sep)]
            /\ UNCHANGED dbVars

NextEval == EvalHeader \/ EvalItem \/ SelectHeader \/ SelectItem \/ SplitKey

\* the keys of grn_status_map in insertion order
RECURSIVE GrnKeys(_, _)
GrnKeys(reconciled, keys) ==
    IF reconciled = << >> THEN keys
    ELSE GrnKeys(Tail(reconciled),
                 IF \E k \in 1..Len(keys) : keys[k] = GrnKey(Head(reconciled))
                 THEN keys ELSE Append(keys, GrnKey(Head(reconciled))))

\* the loop over grn_status_map of _update_grn_summary_status.  A key that
\* does not split in two raises ValueError, which ends the loop and keeps
\* the summaries saved so far; a key whose parts name no summary, or more
\* than one, is passed over.
RECURSIVE UpdateGrnSummaries(_, _, _, _)
UpdateGrnSummaries(keys, reconciled, status, sep) ==
    IF keys = << >> THEN status
    ELSE LET parts == RSplitOnce(Head(keys), sep)
             match_statuses ==
                 SelectSeq(reconciled, LAMBDA rec : GrnKey(rec) = Head(keys))
             reconciliation_status ==
                 IF \A k \in 1..Len(match_statuses) :
                        match_statuses[k].match_status = "perfect_match"
                 THEN "matched" ELSE "variance"
             found == {g \in 1..Len(PostGrnTable) :
                          /\ PostGrnTable[g].grn_number = parts[1]
                          /\ PostGrnTable[g].po_number = parts[2]}
         IN  IF Len(parts) # 2 THEN status
             ELSE UpdateGrnSummaries(
                      Tail(keys), reconciled,
                      IF Cardinality(found) = 1
                      THEN [g \in 1..Len(status) |->
                               IF g \in found
                               THEN [is_reconciled |-> TRUE,
                                     reconciliation_status |-> reconciliation_status]
                               ELSE status[g]]
                      ELSE status,
                      sep)

\* _update_grn_summary_status: sep is the separator the view splits the key
\* at ("/" in views/reconciliation/manual_match_views.py, "_" in
\* views/invoice_recon_views.py)
_update_grn_summary_status(rows, invoice_ids, status, sep) ==
    LET reconciled ==
            SelectSeq(rows, LAMBDA rec :
                /\ invoice_ids = {} \/ rec.invoice_data_id \in invoice_ids
                /\ rec.match_status \in {"perfect_match", "partial_match"})
    IN  UpdateGrnSummaries(GrnKeys(reconciled, << >>), reconciled, status, sep)

\* a rollup that looks at the header record only
OverallWithoutLines(invoice_recon, item_rows) ==
    IF invoice_recon.match_status = "perfect_match" THEN "complete_match" ELSE "mismatch"

\* overall_status of _update_overall_match_status for one header record
OverallOfInvoice(invoice_recon, item_rows) ==
    LET invoice_perfect == invoice_recon.match_status = "perfect_match"
        all_items_perfect ==
            \A k \in 1..Len(item_rows) :
                item_rows[k].invoice_data_id = invoice_recon.invoice_data_id
                    => item_rows[k].match_status = "perfect_match"
    IN  IF invoice_perfect /\ all_items_perfect THEN "complete_match"
        ELSE IF invoice_perfect /\ ~all_items_perfect THEN "conditional_match"
        ELSE "mismatch"

\* _update_overall_match_status: save(update_fields=['overall_match_status'])
\* writes that column alone
_update_overall_match_status(rows, item_rows, invoice_ids) ==
    [k \in 1..Len(rows) |->
        IF invoice_ids = {} \/ rows[k].invoice_data_id \in invoice_ids
        THEN [rows[k] EXCEPT !.overall_match_status = OverallOfInvoice(rows[k], item_rows)]
        ELSE rows[k]]

\* no request in progress
IdlePost ==
    [pc |-> "idle", n |-> 0, api |-> "none", invoice_ids |-> {},
     filtered_invoice_ids |-> {}, tolerance_percentage |-> 0,
     date_tolerance_days |-> 0, batch_size |-> 0,
     skip_item_reconciliation |-> FALSE, stats |-> ZeroStats,
     item_stats |-> ZeroItemStats, http |-> 0, history |-> << >>]

\* what a finished request leaves for comparison with later ones
PostSummary(p, http) ==
    [api |-> p.api, invoice_ids |-> p.invoice_ids,
     filtered_invoice_ids |-> p.filtered_invoice_ids,
     tolerance_percentage |-> p.tolerance_percentage,
     skip_item_reconciliation |-> p.skip_item_reconciliation,
     stats |-> p.stats, item_stats |-> p.item_stats, http |-> http]

Respond(p, http) ==
    [p EXCEPT !.pc = "responded", !.http = http,
              !.history = Append(@, PostSummary(p, http))]

\* a validation that does not look at the chunk size
ConfigRejectedWithoutChunk(tolerance_percentage, date_tolerance_days, batch_size) ==
    \/ tolerance_percentage < 0 \/ tolerance_percentage > 5000
    \/ date_tolerance_days < 0 \/ date_tolerance_days > 365

\* "Validate parameters" in _async_post of both views, on the parsed values:
\* tolerance outside 0..50 %, days outside 0..365, chunk size outside 5..500
ConfigRejected(tolerance_percentage, date_tolerance_days, batch_size) ==
    \/ tolerance_percentage < 0 \/ tolerance_percentage > 5000
    \/ date_tolerance_days < 0 \/ date_tolerance_days > 365
    \/ batch_size < 5 \/ batch_size > 500

\* _async_post up to the header run.  The unified view ("unified",
\* views/reconciliation/manual_match_views.py) keeps the completed invoices
\* that did not fail, are no duplicates and are not matched yet, and answers
\* 400 when none is left; the older view ("invoice_recon",
\* views/invoice_recon_views.py) passes the ids of the request on.
PostRequest(configs) ==
    /\ post.pc \in {"idle", "responded"}
    /\ post.n < MaxPosts
    /\ \E api \in {"unified", "invoice_recon"},
          invoice_ids \in {ids \in SUBSET PostInvoiceIds : Cardinality(ids) <= MaxRequestIds},
          config \in configs,
          skip_item_reconciliation \in BOOLEAN :
        LET filtered ==
                {id \in PostInvoiceIds :
                    /\ PostInvoiceTable[id].processing_status = "completed"
                    /\ PostInvoiceTable[id].failure_reason = None
                    /\ ~PostInvoiceTable[id].duplicates
                    /\ id \notin matched
                    /\ invoice_ids = {} \/ id \in invoice_ids}
            p == [post EXCEPT
                    !.n = @ + 1, !.api = api, !.invoice_ids = invoice_ids,
                    !.filtered_invoice_ids =
                        IF api = "unified" THEN filtered ELSE invoice_ids,
                    !.tolerance_percentage = config.tolerance_percentage,
                    !.date_tolerance_days = config.date_tolerance_days,
                    !.batch_size = config.batch_size,
                    !.skip_item_reconciliation = skip_item_reconciliation,
                    !.stats = ZeroStats, !.item_stats = ZeroItemStats, !.http = 0]
        IN  post' = IF ConfigRejected(config.tolerance_percentage,
                                      config.date_tolerance_days, config.batch_size)
                    THEN Respond(p, 400)
                    ELSE IF api = "unified" /\ filtered = {}
                    THEN Respond(p, 400)
                    ELSE [p EXCEPT !.pc = "header"]
    /\ UNCHANGED <<batches, hdrRecs, runs, failures, probe, manual, itemRecs, grnStatus, matched>>

\* the requests of the two-request behaviours: every parameter but the
\* amount tolerance at its default
PostConfigs ==
    {[tolerance_percentage |-> t, date_tolerance_days |-> 30, batch_size |-> 100] :
        t \in {200, 1000}}

PostReceive == PostRequest(PostConfigs)

\* STEP 1: run_rule_based_reconciliation, from the batch row to its completion
PostHeaderRun ==
    /\ post.pc = "header"
    /\ \E out \in {ProcessInvoices(PostQueryInvoices(post.filtered_invoice_ids), hdrRecs,
                                   ZeroStats, post.tolerance_percentage,
                                   post.date_tolerance_days)} :
       \E created \in {_create_reconciliation_batch(batches, post.tolerance_percentage,
                                                    post.date_tolerance_days)} :
         LET batch == [created[Len(created)] EXCEPT
                         !.total_invoices =
                             Len(PostQueryInvoices(post.filtered_invoice_ids))]
         IN  /\ hdrRecs' = out.rows
             /\ batches' = BatchSave(created, _complete_reconciliation_batch(batch, out.stats))
             /\ post' = [post EXCEPT
                           !.stats = out.stats,
                           !.pc = IF post.api = "unified" THEN "matched" ELSE "items"]
    /\ UNCHANGED <<runs, failures, probe, manual, itemRecs, grnStatus, matched>>

\* STEP 1.1 of the unified view
PostUpdateMatched ==
    /\ post.pc = "matched"
    /\ matched' = _update_matched_status_for_invoices(hdrRecs, post.filtered_invoice_ids,
                                                      matched)
    /\ post' = [post EXCEPT !.pc = "items"]
    /\ UNCHANGED <<batches, hdrRecs, runs, failures, probe, manual, itemRecs, grnStatus>>

\* STEP 2: run_item_wise_reconciliation, unless the request skips it
PostItemRun ==
    /\ post.pc = "items"
    /\ \E out \in {IF post.skip_item_reconciliation
                   THEN [rows |-> itemRecs, stats |-> ZeroItemStats]
                   ELSE ProcessItems(PostQueryItems(post.filtered_invoice_ids), itemRecs,
                                     ZeroItemStats, post.tolerance_percentage)} :
         /\ itemRecs' = out.rows
         /\ post' = [post EXCEPT !.item_stats = out.stats, !.pc = "grn_status"]
    /\ UNCHANGED <<batches, hdrRecs, runs, failures, probe, manual, grnStatus, matched>>

\* STEP 3: _update_grn_summary_status; the older view answers after it
PostUpdateGrnStatus ==
    /\ post.pc = "grn_status"
    /\ grnStatus' = _update_grn_summary_status(
                        hdrRecs, post.filtered_invoice_ids, grnStatus,
                        IF post.api = "unified" THEN "/" ELSE "_")
    /\ post' = IF post.api = "unified" THEN [post EXCEPT !.pc = "overall"]
               ELSE Respond(post, 200)
    /\ UNCHANGED <<batches, hdrRecs, runs, failures, probe, manual, itemRecs, matched>>

\* STEP 4 of the unified view: _update_overall_match_status, then the answer
PostUpdateOverall ==
    /\ post.pc = "overall"
    /\ hdrRecs' = _update_overall_match_status(hdrRecs, itemRecs, post.filtered_invoice_ids)
    /\ post' = Respond(post, 200)
    /\ UNCHANGED <<batches, runs, failures, probe, manual, itemRecs, grnStatus, matched>>

NextPost ==
    \/ PostReceive
    \/ PostHeaderRun
    \/ PostUpdateMatched
    \/ PostItemRun
    \/ PostUpdateGrnStatus
    \/ PostUpdateOverall

----------------------------------------------------------------------------
(* Manual Match: ManualMatchAPI.post *)

\* all_field_mappings of _get_field_mappings, as (invoice column, receipt
\* column) pairs, for the columns the line records carry here
all_field_mappings ==
    {<<"invoice_item_hsn", "grn_item_hsn">>,
     <<"invoice_item_quantity", "grn_item_quantity">>,
     <<"invoice_item_unit_price", "grn_item_unit_price">>,
     <<"invoice_item_subtotal", "grn_item_subtotal">>,
     <<"invoice_item_cgst_amount", "grn_item_cgst_amount">>,
     <<"invoice_item_total_amount", "grn_item_total_amount">>}

\* field_aliases of _get_field_mappings: the invoice columns a name stands
\* for ('description', 'unit', 'sgst' and 'igst' name columns that are not
\* carried here)
field_aliases(field) ==
    CASE field = "hsn" -> {"invoice_item_hsn"}
      [] field = "quantity" -> {"invoice_item_quantity"}
      [] field = "unit_price" -> {"invoice_item_unit_price"}
      [] field = "subtotal" -> {"invoice_item_subtotal"}
      [] field = "cgst" -> {"invoice_item_cgst_amount"}
      [] field = "total_amount" -> {"invoice_item_total_amount"}
      [] OTHER -> {}

allowed_fields ==
    {"description", "quantity", "unit_price", "total_amount", "hsn", "unit", "subtotal",
     "cgst", "sgst", "igst", "all"}

\* _get_field_mappings
_get_field_mappings(fields_to_swap) ==
    IF \E k \in 1..Len(fields_to_swap) : fields_to_swap[k] = "all"
    THEN all_field_mappings
    ELSE {m \in all_field_mappings :
            \E k \in 1..Len(fields_to_swap) : m[1] \in field_aliases(fields_to_swap[k])}

\* the copy loop of post: setattr(reconciliation, target, getattr(source))
CopyFields(rec, field_mappings, swap_direction) ==
    LET from == IF swap_direction = "invoice_to_grn" THEN 1 ELSE 2
        to == IF swap_direction = "invoice_to_grn" THEN 2 ELSE 1
    IN  [c \in DOMAIN rec |->
            IF \E m \in field_mappings : m[to] = c
            THEN rec[(CHOOSE m \in field_mappings : m[to] = c)[from]]
            ELSE rec[c]]

\* (variance / grn) * 100 and abs(pct) <= tolerance
PctOf(variance, grn) == Frac(variance * 100, grn)

AbsPctLeq(pct, tolerance) == PctLeq(Frac(Abs(pct.num), Abs(pct.den)), tolerance, 1)

\* one variance of _recalculate_variances: written only when both sides
\* are truthy, else left as it was
Recalculated(a, b, old) ==
    IF TruthyNum(a) /\ TruthyNum(b) THEN Some(a[1] - b[1]) ELSE old

\* _recalculate_variances
_recalculate_variances(rec) ==
    LET both_quantity ==
            TruthyNum(rec.invoice_item_quantity) /\ TruthyNum(rec.grn_item_quantity)
        both_subtotal ==
            TruthyNum(rec.invoice_item_subtotal) /\ TruthyNum(rec.grn_item_subtotal)
        both_total ==
            TruthyNum(rec.invoice_item_total_amount) /\ TruthyNum(rec.grn_item_total_amount)
        quantity_variance ==
            Recalculated(rec.invoice_item_quantity, rec.grn_item_quantity,
                         rec.quantity_variance)
        subtotal_variance ==
            Recalculated(rec.invoice_item_subtotal, rec.grn_item_subtotal,
                         rec.subtotal_variance)
        total_amount_variance ==
            Recalculated(rec.invoice_item_total_amount, rec.grn_item_total_amount,
                         rec.total_amount_variance)
        quantity_variance_percentage ==
            IF both_quantity
            THEN Some(PctOf(quantity_variance[1], rec.grn_item_quantity[1]))
            ELSE rec.quantity_variance_percentage
        subtotal_variance_percentage ==
            IF both_subtotal
            THEN Some(PctOf(subtotal_variance[1], rec.grn_item_subtotal[1]))
            ELSE rec.subtotal_variance_percentage
        total_amount_variance_percentage ==
            IF both_total
            THEN Some(PctOf(total_amount_variance[1], rec.grn_item_total_amount[1]))
            ELSE rec.total_amount_variance_percentage
        \* tolerance_percentage_applied or 2.00, ..._applied or 5.00
        tolerance_pct ==
            IF rec.tolerance_percentage_applied # 0
            THEN rec.tolerance_percentage_applied ELSE 200
        quantity_tolerance_pct ==
            IF rec.quantity_tolerance_percentage_applied # 0
            THEN rec.quantity_tolerance_percentage_applied ELSE 500
    IN  [rec EXCEPT
           !.quantity_variance = quantity_variance,
           !.quantity_variance_percentage = quantity_variance_percentage,
           !.subtotal_variance = subtotal_variance,
           !.subtotal_variance_percentage = subtotal_variance_percentage,
           !.total_amount_variance = total_amount_variance,
           !.total_amount_variance_percentage = total_amount_variance_percentage,
           !.unit_rate_variance =
               Recalculated(rec.invoice_item_unit_price, rec.grn_item_unit_price,
                            rec.unit_rate_variance),
           !.cgst_variance =
               Recalculated(rec.invoice_item_cgst_amount, rec.grn_item_cgst_amount,
                            rec.cgst_variance),
           !.is_within_amount_tolerance =
               IF total_amount_variance_percentage # None
                  /\ total_amount_variance_percentage[1].num # 0
               THEN AbsPctLeq(total_amount_variance_percentage[1], tolerance_pct)
               ELSE rec.is_within_amount_tolerance,
           !.is_within_quantity_tolerance =
               IF quantity_variance_percentage # None
                  /\ quantity_variance_percentage[1].num # 0
               THEN AbsPctLeq(quantity_variance_percentage[1], quantity_tolerance_pct)
               ELSE rec.is_within_quantity_tolerance]

\* the body of the loop of post for one record: copy, flags, note,
\* recalculation, save
ManualCopy(rec, request, now) ==
    LET copied == CopyFields(rec, _get_field_mappings(request.fields_to_swap),
                             request.swap_direction)
        flagged ==
            [copied EXCEPT
               !.match_status = "perfect_match",
               !.manual_match = TRUE,
               !.is_auto_matched = FALSE,
               !.reconciliation_notes =
                   Append(@, [user |-> request.user, on |-> now,
                              direction |-> request.swap_direction,
                              original_status |-> rec.match_status,
                              fields |-> request.fields_to_swap])]
    IN  ItemSave(_recalculate_variances(flagged))

\* perfect_match_records.exists(): some record of the invoice is perfect
ManualRejects(rows, invoice_data_id) ==
    \E k \in 1..Len(rows) :
        rows[k].invoice_data_id = invoice_data_id /\ rows[k].match_status = "perfect_match"

\* ManualMatchAPI.post: the status of the answer and the line table after it
ManualMatchPost(rows, request, now) ==
    IF request.swap_direction \notin {"invoice_to_grn", "grn_to_invoice"}
    THEN [http |-> 400, rows |-> rows]
    ELSE IF \E k \in 1..Len(request.fields_to_swap) :
                request.fields_to_swap[k] \notin allowed_fields
    THEN [http |-> 400, rows |-> rows]
    ELSE IF ~\E k \in 1..Len(rows) : rows[k].invoice_data_id = request.invoice_data_id
    THEN [http |-> 404, rows |-> rows]
    ELSE IF ManualRejects(rows, request.invoice_data_id)
    THEN [http |-> 400, rows |-> rows]
    ELSE [http |-> 200,
          rows |-> [k \in 1..Len(rows) |->
                       IF rows[k].invoice_data_id = request.invoice_data_id
                       THEN ManualCopy(rows[k], request, now)
                       ELSE rows[k]]]

\* manual requests handled in a behaviour
MaxManual == 1

NoManual == [n |-> 0, request |-> None, http |-> 0, before |-> << >>]

\* a Manual Match request, between two reconciliation requests
ManualMatch ==
    /\ manual.n < MaxManual
    /\ post.pc \in {"idle", "responded"}
    /\ \E invoice_data_id \in PostInvoiceIds,
          swap_direction \in {"invoice_to_grn", "grn_to_invoice", "swap"},
          fields_to_swap \in {<<"all">>, <<"hsn">>, <<"quantity", "unit_price">>, <<"tax">>} :
       \E request \in {[invoice_data_id |-> invoice_data_id,
                        swap_direction |-> swap_direction,
                        fields_to_swap |-> fields_to_swap,
                        user |-> <<"u", "1">>]} :
       \E out \in {ManualMatchPost(itemRecs, request, manual.n + 1)} :
         /\ itemRecs' = out.rows
         /\ manual' = [n |-> manual.n + 1, request |-> Some(request),
                       http |-> out.http, before |-> itemRecs]
    /\ UNCHANGED <<batches, hdrRecs, runs, failures, probe, grnStatus, matched, post>>

\* requests at, inside and just outside the bounds of the three parameters
AllConfigs ==
    {[tolerance_percentage |-> c[1], date_tolerance_days |-> c[2], batch_size |-> c[3]] :
        c \in {<<200, 30, 100>>, <<0, 0, 5>>, <<5000, 365, 500>>,
               <<5001, 30, 100>>, <<-1, 30, 100>>, <<200, -1, 100>>, <<200, 366, 100>>,
               <<200, 30, 4>>, <<200, 30, 501>>}}

\* one reconciliation request with any of these configurations
NextConfig ==
    \/ post.n = 0 /\ PostRequest(AllConfigs)
    \/ PostHeaderRun
    \/ PostUpdateMatched
    \/ PostItemRun
    \/ PostUpdateGrnStatus
    \/ PostUpdateOverall

\* one reconciliation request, then manual requests
NextManual ==
    \/ post.n = 0 /\ manual.n = 0 /\ PostReceive
    \/ PostHeaderRun
    \/ PostUpdateMatched
    \/ PostItemRun
    \/ PostUpdateGrnStatus
    \/ PostUpdateOverall
    \/ ManualMatch

Init ==
    /\ batches = << >>
    /\ hdrRecs = << >>
    /\ runs = [r \in Runs |-> IdleRun]
    /\ failures = 0
    /\ probe = NoProbe
    /\ itemRecs = << >>
    /\ grnStatus = [g \in 1..Len(PostGrnTable) |->
                       [is_reconciled |-> FALSE, reconciliation_status |-> "pending"]]
    /\ matched = {}
    /\ post = IdlePost
    /\ manual = NoManual

Next == \E r \in Runs : StartRun(r) \/ ProcessInvoice(r) \/ CompleteRun(r)

Spec == Init /\ [][Next]_vars

SpecCalc == Init /\ [][NextCalc]_vars

SpecEval == Init /\ [][NextEval]_vars

SpecFind == Init /\ [][NextFind]_vars

SpecPost == Init /\ [][NextPost]_vars

SpecManual == Init /\ [][NextManual]_vars

SpecConfig == Init /\ [][NextConfig]_vars

----------------------------------------------------------------------------
(* Properties of the header run (specification Spec) *)

\* the table row of the batch a run created
BatchRow(r) == batches[runs[r].batch[1].batch_id]

C2_PerRecordFailureIsCounted ==
    \A r \in Runs :
        /\ runs[r].last # None /\ runs[r].last[1].raised => runs[r].last[1].d_errors = 1
        /\ runs[r].stats.errors = runs[r].raised
        /\ runs[r].pc = "returned" => runs[r].i > Len(runs[r].invoices)
        /\ runs[r].success = "true" =>
             /\ BatchRow(r).status = "completed"
             /\ BatchRow(r).processed_invoices = runs[r].stats.total_processed
             /\ BatchRow(r).perfect_matches = runs[r].stats.perfect_matches
             /\ BatchRow(r).partial_matches = runs[r].stats.partial_matches
             /\ BatchRow(r).exceptions = runs[r].stats.amount_mismatches
                                         + runs[r].stats.vendor_mismatches
                                         + runs[r].stats.date_mismatches
             /\ BatchRow(r).no_matches = runs[r].stats.no_matches

\* a run that got through although two of its invoices failed
C2_Witness ==
    \E r \in Runs :
        /\ runs[r].success = "true"
        /\ runs[r].stats.errors >= 2
        /\ BatchRow(r).status = "completed"

\* C3: when a failure outside the per-record handling stops a run after its
\* batch was created, the batch is marked failed; no batch is in status
\* running once its run has returned.
C3_FailedRunMarksBatchFailed ==
    \A r \in Runs :
        (runs[r].pc = "returned" /\ runs[r].batch # None)
            => /\ BatchRow(r).status # "running"
               /\ runs[r].success = "false" => BatchRow(r).status = "failed"

\* C4: a batch is created in status running, and once it is completed,
\* failed or cancelled no step of any run changes its status or counters.
C4_BatchTerminalOnce ==
    [][/\ Len(batches') >= Len(batches)
       /\ \A k \in 1..Len(batches) :
            batches[k].status # "running" => batches'[k] = batches[k]
       /\ \A k \in (Len(batches) + 1)..Len(batches') :
            batches'[k].status = "running"]_vars

\* two batches completed: the steps of the run that finished second came
\* after the other batch had become terminal
C4_Witness ==
    /\ Len(batches) >= 2
    /\ batches[1].status = "completed"
    /\ batches[2].status = "completed"
    /\ runs[2].stats.total_processed + runs[2].stats.errors >= 1

----------------------------------------------------------------------------
(* Properties of the two Candidate Finders (specification SpecFind) *)

\* the hierarchy as the specification states it: per strategy the pairs
\* (invoice field, receipt field) that must be equal, and for the line
\* finder the least description similarity in tenths (0: none asked)
C5_HeaderStrategies ==
    <<{<<"po_number", "po_number">>, <<"grn_number", "grn_number">>,
       <<"invoice_number", "seller_invoice_number">>},
      {<<"po_number", "po_number">>, <<"invoice_number", "seller_invoice_number">>},
      {<<"po_number", "po_number">>, <<"grn_number", "grn_number">>},
      {<<"po_number", "po_number">>},
      {<<"invoice_number", "seller_invoice_number">>},
      {<<"vendor_gst", "pickup_gstin">>}>>

C5_LineStrategies ==
    <<[keys |-> {<<"po_number", "po_no">>, <<"invoice_number", "seller_invoice_no">>,
                 <<"hsn_code", "hsn_no">>}, tenths |-> 6],
      [keys |-> {<<"po_number", "po_no">>, <<"hsn_code", "hsn_no">>}, tenths |-> 0],
      [keys |-> {<<"po_number", "po_no">>, <<"invoice_number", "seller_invoice_no">>},
       tenths |-> 0],
      [keys |-> {<<"po_number", "po_no">>}, tenths |-> 7],
      [keys |-> {<<"po_number", "po_no">>}, tenths |-> 0]>>

\* the candidates of header strategy n: none when the invoice lacks a key
C5_HeaderResult(n, invoice, grns) ==
    LET keys == C5_HeaderStrategies[n]
        Keep(g) == \A k \in keys : g[k[2]] = invoice[k[1]]
    IN  IF \E k \in keys : invoice[k[1]] = << >> THEN << >> ELSE SelectSeq(grns, Keep)

C5_LineResult(n, invoice_item, grn_items) ==
    LET keys == C5_LineStrategies[n].keys
        Keep(g) ==
            /\ \A k \in keys : g[k[2]] = invoice_item[k[1]]
            /\ SimAtLeast(_calculate_description_similarity(invoice_item.item_description,
                                                            g.item_name),
                          C5_LineStrategies[n].tenths)
    IN  IF \E k \in keys : invoice_item[k[1]] = << >> THEN << >>
        ELSE SelectSeq(grn_items, Keep)

\* matches are the candidates of the first strategy of hits, and the
\* executed lookups are in ascending order and end at that strategy
C5_StopsAtFirst(hits, out, first_result) ==
    /\ \A i, j \in 1..Len(out.executed) : i < j => out.executed[i] < out.executed[j]
    /\ hits = {} => out.matches = << >>
    /\ hits # {} =>
         /\ out.matches = first_result
         /\ out.executed # << >>
         /\ out.executed[Len(out.executed)] = CHOOSE n \in hits : \A m \in hits : n <= m

\* C5: both finders try their strategies in the fixed order of the
\* specification and return exactly the candidates of the first strategy
\* whose result is non-empty; no strategy after that one is executed.
C5_FirstNonEmptyStrategy ==
    /\ probe.kind = "header_find" =>
         LET hits == {n \in 1..6 : C5_HeaderResult(n, probe.invoice, probe.grns) # << >>}
         IN  C5_StopsAtFirst(hits, probe.out,
                 C5_HeaderResult(CHOOSE n \in hits : \A m \in hits : n <= m,
                                 probe.invoice, probe.grns))
    /\ probe.kind = "line_find" =>
         LET hits == {n \in 1..5 :
                        C5_LineResult(n, probe.invoice_item, probe.grn_items) # << >>}
         IN  C5_StopsAtFirst(hits, probe.out,
                 C5_LineResult(CHOOSE n \in hits : \A m \in hits : n <= m,
                               probe.invoice_item, probe.grn_items))

\* a line whose exact lookup found only a receipt line with another
\* description, so that the PO + tax code lookup answered, while the table
\* also holds a receipt line that only the PO-only lookup would return
C5_Witness ==
    /\ probe.kind = "line_find"
    /\ probe.out.executed = <<1, 2>>
    /\ Len(probe.out.matches) = 1
    /\ probe.out.matches[1].item_name = <<"z">>
    /\ probe.out.matches[1].seller_invoice_no = probe.invoice_item.invoice_number
    /\ \E k \in 1..Len(probe.grn_items) :
         /\ probe.grn_items[k].po_no = probe.invoice_item.po_number
         /\ probe.grn_items[k].hsn_no # probe.invoice_item.hsn_code

----------------------------------------------------------------------------
(* Properties of the evaluators (specification SpecEval) *)

\* whether |invoice_value - receipt_value| as a percentage of the receipt
\* value is at most factor times the tolerance (hundredths of a percent);
\* against a receipt value of 0 the percentage is 0 for no variance, else 100
C9_PctWithin(invoice_value, receipt_value, tolerance, factor) ==
    IF receipt_value # 0
    THEN Abs(invoice_value - receipt_value) * 10000 <= tolerance * factor * receipt_value
    ELSE IF invoice_value = receipt_value THEN TRUE
    ELSE 100 * 100 <= tolerance * factor

\* C7: the header status is perfect_match from score 85, partial_match from
\* 60 to 84, and below 60 amount_mismatch if the total is outside tolerance,
\* else vendor_mismatch if the vendor does not match, else date_mismatch if
\* the date is not valid, else partial_match.
C7_HeaderStatusMapping ==
    probe.kind = "header_eval" =>
        LET out == probe.out
            total_within ==
                C9_PctWithin(safe_decimal(probe.invoice.invoice_total_post_gst),
                             safe_decimal(probe.grn.total_amount), probe.tolerance, 1)
        IN  /\ out.match_score >= 85 => out.match_status = "perfect_match"
            /\ (out.match_score >= 60 /\ out.match_score <= 84)
                   => out.match_status = "partial_match"
            /\ (out.match_score < 60 /\ ~total_within)
                   => out.match_status = "amount_mismatch"
            /\ (out.match_score < 60 /\ total_within /\ ~out.match_details.vendor_match)
                   => out.match_status = "vendor_mismatch"
            /\ (out.match_score < 60 /\ total_within /\ out.match_details.vendor_match
                /\ ~out.match_details.date_valid)
                   => out.match_status = "date_mismatch"
            /\ (out.match_score < 60 /\ total_within /\ out.match_details.vendor_match
                /\ out.match_details.date_valid)
                   => out.match_status = "partial_match"

\* a low score with the total in tolerance and the vendor matching, where
\* only the date is left to decide
C7_Witness ==
    /\ probe.kind = "header_eval"
    /\ probe.out.match_score < 60
    /\ probe.out.match_status = "date_mismatch"

\* C8: the header score is in [0,100], the raw line score is in [0,100] and
\* the normalized line score stored on the record is in [0,1].
C8_ScoresInRange ==
    /\ probe.kind = "header_eval" =>
         probe.out.match_score >= 0 /\ probe.out.match_score <= 100
    /\ probe.kind = "item_eval" =>
         /\ probe.out.match_score >= 0 /\ probe.out.match_score <= 100
         /\ probe.stored_score.num >= 0
         /\ probe.stored_score.num <= probe.stored_score.den

\* the tags of a list, and the list joined with ', '
C10_TagSet(tags) == {tags[i] : i \in 1..Len(tags)}

RECURSIVE C10_Joined(_)
C10_Joined(tags) ==
    IF Len(tags) = 1 THEN tags[1] ELSE tags[1] \o ", " \o C10_Joined(Tail(tags))

\* C10: the line status is exactly the failing criteria among the tax code,
\* tax rate, subtotal, quantity and price, as a comma-joined tag list; it is
\* perfect_match if and only if none fails; description and unit of measure
\* add no tag.
C10_LineStatusIsFailingTags ==
    probe.kind = "item_eval" =>
        LET out == probe.out
            failing ==
                {t \in {"hsn_mismatch", "tax_rate_mismatch", "subtotal_mismatch",
                        "quantity_mismatch", "price_mismatch"} :
                    \/ t = "hsn_mismatch" /\ ~out.match_details.hsn_match
                    \/ t = "tax_rate_mismatch" /\ ~out.match_details.tax_rate_match
                    \/ t = "subtotal_mismatch"
                       /\ ~out.match_details.amount_match.within_tolerance
                    \/ t = "quantity_mismatch"
                       /\ ~out.match_details.quantity_match.within_tolerance
                    \/ t = "price_mismatch"
                       /\ ~out.match_details.price_match.within_tolerance}
        IN  /\ C10_TagSet(out.mismatch_types) = failing
            /\ Len(out.mismatch_types) = Cardinality(failing)
            /\ (out.match_status = "perfect_match") <=> (failing = {})
            /\ failing # {} => out.match_status = C10_Joined(out.mismatch_types)

\* a line equal to its receipt line in everything but the tax code, with
\* another description spelling and no unit on the receipt side
C10_Witness ==
    /\ probe.kind = "item_eval"
    /\ probe.invoice_item.hsn_code = <<"H", "1">>
    /\ probe.grn_item.hsn_no = <<"H", "2">>
    /\ probe.grn_item.item_name = <<"a">>
    /\ probe.grn_item.unit = << >>
    /\ probe.out.match_details.tax_rate_match
    /\ probe.out.match_details.quantity_match.variance = 0
    /\ probe.out.match_details.price_match.variance = 0
    /\ probe.out.match_details.amount_match.variance = 0
    /\ probe.out.match_status = "hsn_mismatch"

----------------------------------------------------------------------------
(* Properties of the variance calculators (specification SpecCalc) *)

\* C9: each calculator returns variance = invoice value - receipt value;
\* variance_pct = |variance| / receipt value x 100, or against a receipt
\* value of 0, 0 for no variance and 100 otherwise; within_tolerance =
\* (variance_pct <= tolerance), the boundary included; points 15 within
\* tolerance, 10 within twice, 5 within five times the tolerance, else 0;
\* for every tolerance from 0 to 50 %.
C9_CalculatorContract ==
    probe.kind = "calc" =>
        LET iv == safe_decimal(probe.invoice_value)
            gv == safe_decimal(probe.receipt_value)
            pct == probe.variance_pct
        IN  /\ probe.tolerance >= 0 /\ probe.tolerance <= 5000
            /\ probe.variance = iv - gv
            /\ pct.den > 0
            /\ gv # 0 => pct.num * gv = Abs(iv - gv) * 100 * pct.den
            /\ (gv = 0 /\ iv = gv) => pct.num = 0
            /\ (gv = 0 /\ iv # gv) => pct.num = 100 * pct.den
            /\ probe.within_tolerance <=> C9_PctWithin(iv, gv, probe.tolerance, 1)
            /\ probe.score =
                 IF C9_PctWithin(iv, gv, probe.tolerance, 1) THEN 15
                 ELSE IF C9_PctWithin(iv, gv, probe.tolerance, 2) THEN 10
                 ELSE IF C9_PctWithin(iv, gv, probe.tolerance, 5) THEN 5
                 ELSE 0

\* the boundary: a line total 25 % above the receipt's with a tolerance of
\* 25 % is within tolerance and gets the 15 points
C9_Witness ==
    /\ probe.kind = "calc"
    /\ probe.which = "line_total"
    /\ probe.invoice_value = Some(5)
    /\ probe.receipt_value = Some(4)
    /\ probe.tolerance = 2500
    /\ probe.within_tolerance
    /\ probe.score = 15

\* C11: every line record written by an automatic run with a matched receipt
\* line has overall_match_status complete_match if the hsn, tax-rate,
\* subtotal, quantity and price criteria all pass, conditional_match if hsn,
\* tax-rate and subtotal pass but quantity or price fails, and mismatch
\* otherwise; so it is complete_match exactly when match_status is
\* perfect_match.
C11_OverallStatusFromCriteria ==
    probe.kind = "item_eval" =>
        LET d == probe.out.match_details
            core == d.hsn_match /\ d.tax_rate_match /\ d.amount_match.within_tolerance
            secondary == d.quantity_match.within_tolerance /\ d.price_match.within_tolerance
            overall == probe.record.overall_match_status
        IN  /\ probe.record.match_status = probe.out.match_status
            /\ (core /\ secondary) => overall = "complete_match"
            /\ (core /\ ~secondary) => overall = "conditional_match"
            /\ ~core => overall = "mismatch"
            /\ overall = "complete_match" <=> probe.record.match_status = "perfect_match"

\* Scenario D: only the quantity is out of tolerance (8 % against 5 %) and
\* the record is a conditional match tagged quantity_mismatch
C11_Witness ==
    /\ probe.kind = "item_eval"
    /\ probe.tolerance = 500
    /\ probe.invoice_item.quantity = Some(108)
    /\ probe.record.match_status = "quantity_mismatch"
    /\ probe.record.overall_match_status = "conditional_match"

\* C12: the line tax-rate criterion passes exactly when, for each of CGST,
\* SGST and IGST for which both lines have a rate, the two rates differ by at
\* most 0.1 percentage points (10 hundredths); a component with both rates
\* present and more than 0.1 apart makes it fail.
C12_RatesWithinTenth(a, b) ==
    (TruthyNum(a) /\ TruthyNum(b)) => Abs(a[1] - b[1]) <= 10

C12_TaxRateCriterion ==
    probe.kind = "item_eval" =>
        (probe.out.match_details.tax_rate_match <=>
            /\ C12_RatesWithinTenth(probe.invoice_item.cgst_rate, probe.grn_item.cgst_tax)
            /\ C12_RatesWithinTenth(probe.invoice_item.sgst_rate, probe.grn_item.sgst_tax)
            /\ C12_RatesWithinTenth(probe.invoice_item.igst_rate, probe.grn_item.igst_tax))

\* C13: among the candidates returned by the finder, both evaluators select
\* a candidate whose score is the maximum over all candidates; when several
\* share the maximum, the one evaluated first; with at least one candidate
\* one is always selected (and none without candidates).
C13_SelectsFirstMaximum ==
    probe.kind \in {"header_select", "item_select"} =>
        LET evals == probe.evaluations
        IN  IF evals = << >> THEN probe.out = None
            ELSE \E k \in 1..Len(evals) :
                    /\ probe.out = evals[k]
                    /\ \A j \in 1..Len(evals) : evals[j].match_score <= evals[k].match_score
                    /\ \A j \in 1..(k - 1) : evals[j].match_score < evals[k].match_score

\* a lower score first, then two different candidates sharing the maximum:
\* the second of the three is selected
C13_Witness ==
    /\ probe.kind \in {"header_select", "item_select"}
    /\ Len(probe.evaluations) = 3
    /\ probe.evaluations[1].match_score < probe.evaluations[2].match_score
    /\ probe.evaluations[2].match_score = probe.evaluations[3].match_score
    /\ probe.evaluations[2] # probe.evaluations[3]
    /\ probe.out = probe.evaluations[2]

\* C14: after every save of a header or line result record, requires_review
\* is true whenever its match_status is a mismatch category (header:
\* amount_mismatch, vendor_mismatch or date_mismatch; line: a non-empty tag
\* list), or one of its tolerance flags is false, or no receipt line items
\* were matched.
C14_RequiresReviewOnMismatch ==
    /\ probe.kind = "header_eval" =>
         ((\/ probe.record.match_status
                 \in {"amount_mismatch", "vendor_mismatch", "date_mismatch"}
           \/ ~is_within_tolerance(probe.record)
           \/ probe.record.total_grn_line_items = 0)
          => probe.record.requires_review)
    /\ probe.kind = "item_eval" =>
         ((\/ probe.out.mismatch_types # << >>
           \/ ~probe.record.is_within_amount_tolerance
           \/ ~probe.record.is_within_quantity_tolerance)
          => probe.record.requires_review)

----------------------------------------------------------------------------
(* Properties of the unified request (specification SpecPost) *)

\* the line records linked to a header record
LinkedLines(rec) ==
    {k \in 1..Len(itemRecs) : itemRecs[k].invoice_data_id = rec.invoice_data_id}

LinkedHeaders(g) ==
    {k \in 1..Len(hdrRecs) :
        /\ hdrRecs[k].grn_number = PostGrnTable[g].grn_number
        /\ hdrRecs[k].po_number = PostGrnTable[g].po_number}

----------------------------------------------------------------------------
(* Properties of Manual Match (specification SpecManual) *)

\* the line records a successful Manual Match touched
Touched == {k \in 1..Len(itemRecs) : itemRecs[k].invoice_data_id = manual.request[1].invoice_data_id}

\* C17: a successful Manual Match leaves every record it touched with
\* match_status perfect_match, overall_match_status complete_match,
\* manual_match true and is_auto_matched false, and with one more audit
\* note, which names the actor, the time, the copy direction and the fields.
C17_ManualMatchMarksRecords ==
    manual.http = 200 =>
        \A k \in Touched :
            /\ itemRecs[k].match_status = "perfect_match"
            /\ itemRecs[k].overall_match_status = "complete_match"
            /\ itemRecs[k].manual_match
            /\ ~itemRecs[k].is_auto_matched
            /\ Len(itemRecs[k].reconciliation_notes)
                 = Len(manual.before[k].reconciliation_notes) + 1
            /\ LET note == itemRecs[k].reconciliation_notes[Len(itemRecs[k].reconciliation_notes)]
               IN  /\ note.user = manual.request[1].user
                   /\ note.on = manual.n
                   /\ note.direction = manual.request[1].swap_direction
                   /\ note.fields = manual.request[1].fields_to_swap

\* C18: after a successful Manual Match every variance stored on a touched
\* record (quantity, subtotal, total amount, unit rate, tax) is 0 and
\* match_status is perfect_match.
C18_VariancesZeroAfterCopy ==
    manual.http = 200 =>
        \A k \in Touched :
            /\ itemRecs[k].quantity_variance = Some(0)
            /\ itemRecs[k].subtotal_variance = Some(0)
            /\ itemRecs[k].total_amount_variance = Some(0)
            /\ itemRecs[k].unit_rate_variance = Some(0)
            /\ itemRecs[k].cgst_variance = Some(0)
            /\ itemRecs[k].match_status = "perfect_match"

\* C19: a well-formed Manual Match request is rejected for a record of its
\* invoice exactly when that record was perfect_match already, and a
\* rejected request changes no record.
C19_RejectedIffPerfect ==
    (/\ manual.n > 0
     /\ manual.request[1].swap_direction \in {"invoice_to_grn", "grn_to_invoice"}
     /\ \A j \in 1..Len(manual.request[1].fields_to_swap) :
            manual.request[1].fields_to_swap[j] \in allowed_fields) =>
        /\ \A k \in 1..Len(manual.before) :
               manual.before[k].invoice_data_id = manual.request[1].invoice_data_id =>
                   (manual.http # 200 <=> manual.before[k].match_status = "perfect_match")
        /\ manual.http # 200 => itemRecs = manual.before

----------------------------------------------------------------------------
(* Repeated reconciliation requests (specification SpecPost) *)

----------------------------------------------------------------------------
(* Concurrent header runs (specification Spec) *)

----------------------------------------------------------------------------
(* Request validation (specification SpecConfig) *)

\* the request has a parameter outside its range
C22_OutOfRange ==
    \/ post.tolerance_percentage < 0 \/ post.tolerance_percentage > 5000
    \/ post.date_tolerance_days < 0 \/ post.date_tolerance_days > 365
    \/ post.batch_size < 5 \/ post.batch_size > 500

----------------------------------------------------------------------------
(* Stored configuration and tolerance flags (specification SpecEval) *)

\* C23: a record stores the tolerances of the run that wrote it, and each
\* stored tolerance is the value its evaluation used: the amount tolerance
\* on a header record; the amount and the quantity tolerance on a line
\* record, whose two tolerance flags are the evaluation's decisions.
C23_StoredToleranceIsUsed ==
    /\ probe.kind = "header_eval" =>
         probe.record.tolerance_applied = probe.tolerance
    /\ probe.kind = "item_eval" =>
         /\ probe.record.tolerance_percentage_applied = probe.tolerance
         /\ probe.record.quantity_tolerance_percentage_applied = probe.tolerance
         /\ probe.record.is_within_amount_tolerance
              = probe.out.match_details.amount_match.within_tolerance
         /\ probe.record.is_within_quantity_tolerance
              = probe.out.match_details.quantity_match.within_tolerance

----------------------------------------------------------------------------
(* Counters of the header run (specification Spec) *)

----------------------------------------------------------------------------
(* Perfect header matches (specification SpecEval) *)

\* C25: a header evaluation that yields perfect_match has its total amount
\* within the configured tolerance.
C25_PerfectMatchWithinTolerance ==
    (probe.kind = "header_eval" /\ probe.out.match_status = "perfect_match") =>
        /\ probe.out.match_details.amount_tolerance
        /\ C9_PctWithin(safe_decimal(probe.invoice.invoice_total_post_gst),
                        safe_decimal(probe.grn.total_amount), probe.tolerance, 1)

----------------------------------------------------------------------------
(* Counters of the line run (specification SpecPost) *)

\* the counters of the statuses a line can be counted under
C26_PerStatusTotal(stats) ==
    stats.perfect_matches + stats.partial_matches + stats.quantity_mismatches
    + stats.price_mismatches + stats.hsn_mismatches + stats.description_mismatches
    + stats.no_matches

\* C26: after the line run of a request, every invoice line of the request,
\* a record being written for each, is counted in total_items_processed and
\* under exactly one status, and none is counted in errors.
C26_PersistedLinesCounted ==
    (/\ post.pc \in {"grn_status", "overall", "responded"}
     /\ post.http # 400
     /\ ~post.skip_item_reconciliation) =>
        /\ post.item_stats.total_items_processed
             = Len(PostQueryItems(post.filtered_invoice_ids))
        /\ post.item_stats.errors = 0
        /\ C26_PerStatusTotal(post.item_stats) = post.item_stats.total_items_processed

\* C27: the records written by one line run name pairwise distinct receipt
\* lines: no receipt line is the matched candidate of two invoice lines.
\* Stated for the first request, whose run wrote every line record.
C27_ReceiptLineMatchedOnce ==
    post.n = 1 =>
        \A j, k \in 1..Len(itemRecs) :
            (j # k /\ itemRecs[j].grn_item_id # None)
                => itemRecs[j].grn_item_id # itemRecs[k].grn_item_id

----------------------------------------------------------------------------
(* Header rollup at rest (specification SpecManual) *)

----------------------------------------------------------------------------
(* Tolerance flags of line records (specification SpecManual) *)

\* a stored percentage is present and at most the tolerance (hundredths of
\* a percent)
C29_Within(pct, tolerance) ==
    pct # None /\ Abs(pct[1].num) * 100 <= tolerance * Abs(pct[1].den)

\* C29: on every line record with a receipt side, is_within_amount_tolerance
\* is true exactly when the stored total-amount variance percentage is at
\* most the stored tolerance, and is_within_quantity_tolerance likewise for
\* the quantity; after an automatic run and after a Manual Match.
C29_FlagsAgreeWithStoredValues ==
    \A k \in 1..Len(itemRecs) :
        itemRecs[k].grn_item_id # None =>
            /\ itemRecs[k].is_within_amount_tolerance
                 <=> C29_Within(itemRecs[k].total_amount_variance_percentage,
                                itemRecs[k].tolerance_percentage_applied)
            /\ itemRecs[k].is_within_quantity_tolerance
                 <=> C29_Within(itemRecs[k].quantity_variance_percentage,
                                itemRecs[k].quantity_tolerance_percentage_applied)

----------------------------------------------------------------------------
(* Grouping key of the receipt rollup (specification SpecEval) *)

\* C30: the (GRN number, PO number) pair recovered from a grouping key is
\* the pair the key was built from, whatever characters the numbers hold.
C30_KeyRoundTrip ==
    probe.kind = "grn_key" => probe.parts = <<probe.grn_number, probe.po_number>>

====
